---------------------------- MODULE Spec2Model ----------------------------
(***************************************************************************)
(* WebWii file import pages: the WAD/DOL install flow (wad-handler.js),    *)
(* the BootMii restore flow (bootmii-import.js) and the NAND warning modal *)
(* they share (utils: showNandWarning).                                    *)
(*                                                                         *)
(* A File object is named by its index in a table (WadFiles, BackupFiles); *)
(* index 0 is JavaScript's null.  An ArrayBuffer is its byteLength and the *)
(* bytes that are not zero (a function from offsets to 1..255); every      *)
(* other byte of it is zero.  Date.now() in the cookies is left out.       *)
(*                                                                         *)
(* The ROM load into the emulator's file system (dolphin-loader.js:        *)
(* bootROM, and loadROMIntoRetroArch of the page script) follows, then the *)
(* life of the Dolphin loader (init, the script element, the runtime), the *)
(* emulator page script with its RetroArch fallback, and the disclaimer.   *)
(***************************************************************************)
EXTENDS Integers, Sequences, FiniteSets, TLC

\* ------------------------------------------------------------------ bounds

\* file selections (change events that carry a file), over both pages' inputs
MaxSelect == 2
\* operations started (setInterval calls), over both flows
MaxOps == 2
\* loads of the page that holds the disclaimer
MaxPageLoads == 4
\* clicks that accept the disclaimer
MaxAccepts == 3
\* clicks on the pause button
MaxToggles == 3
\* ROM files selected on the emulator page
MaxRomLoads == 2
\* calls of DolphinLoader.init
MaxInit == 3
\* calls of bootROM that reach the backend and of the control methods
MaxCalls == 2

\* --------------------------------------------------------- program constants

BOOTMII_STANDARD_SIZE == 536870912
SIZE_TOLERANCE == 1048576
WAD_MIN_SIZE == 64
DOL_MIN_SIZE == 256
DOL_TEXT_OFFSET == 0
DOL_DATA_OFFSET == 28
WAD_SIG_IS == 1232273408
WAD_SIG_IB == 1768030208
ZERO_SCAN_LIMIT == 1024
InstallStep == 10
RestoreStep == 5

NoType == "null"

\* ------------------------------------------------------------- ArrayBuffer

ByteAt(buf, off) == IF off \in DOMAIN buf.bytes THEN buf.bytes[off] ELSE 0

\* DataView.getUint32 throws a RangeError when the four bytes are not all
\* inside the buffer.
InRange32(buf, off) == off >= 0 /\ off + 4 <= buf.byteLength

\* DataView.getUint32(off, littleEndian); the inputs keep the most
\* significant byte below 0x80, so the value is below 2^31.
GetUint32(buf, off, littleEndian) ==
    IF littleEndian
    THEN ByteAt(buf, off) + 256 * ByteAt(buf, off + 1)
         + 65536 * ByteAt(buf, off + 2) + 16777216 * ByteAt(buf, off + 3)
    ELSE 16777216 * ByteAt(buf, off) + 65536 * ByteAt(buf, off + 1)
         + 256 * ByteAt(buf, off + 2) + ByteAt(buf, off + 3)

\* ---------------------------------------------------------------- file names

LowerOf(c) ==
    CASE c = "W" -> "w" [] c = "A" -> "a" [] c = "D" -> "d"
      [] c = "O" -> "o" [] c = "L" -> "l" [] c = "G" -> "g"
      [] OTHER -> c

ToLowerCase(s) == [i \in 1..Len(s) |-> LowerOf(s[i])]

\* filename.split('.').pop(): the text after the last '.', the whole name
\* when it holds no '.'
RECURSIVE LastDot(_, _)
LastDot(s, i) == IF i = 0 THEN 0 ELSE IF s[i] = "." THEN i ELSE LastDot(s, i - 1)

SplitPop(s) == SubSeq(s, LastDot(s, Len(s)) + 1, Len(s))

\* ------------------------------------------------------- WAD/DOL validation

\* validateWadFile rejecting a header that matches neither signature
validateWadFileStrict(buf) ==
    IF buf.byteLength < 64 THEN FALSE
    ELSE LET headerSignature == GetUint32(buf, 0, FALSE)
         IN headerSignature = 1232273408 \/ headerSignature = 1768030208

validateWadFile(buf) ==
    IF buf.byteLength < WAD_MIN_SIZE THEN FALSE
    ELSE LET headerSignature == GetUint32(buf, 0, FALSE)
         IN IF headerSignature = WAD_SIG_IS \/ headerSignature = WAD_SIG_IB
            THEN TRUE
            ELSE TRUE

\* validateDolFile rejecting offsets that are not inside the file
validateDolFileStrict(buf) ==
    IF buf.byteLength < 256 THEN FALSE
    ELSE LET textOffset0 == GetUint32(buf, 0, FALSE)
             dataOffset0 == GetUint32(buf, 28, FALSE)
         IN \/ textOffset0 > 0 /\ textOffset0 < buf.byteLength
            \/ dataOffset0 > 0 /\ dataOffset0 < buf.byteLength

\* validateDolFile with the minimum size written 0x10
validateDolFileTypo(buf) ==
    IF buf.byteLength < 16 THEN FALSE ELSE TRUE

validateDolFile(buf) ==
    IF buf.byteLength < DOL_MIN_SIZE THEN FALSE
    ELSE LET textOffset0 == GetUint32(buf, DOL_TEXT_OFFSET, FALSE)
             dataOffset0 == GetUint32(buf, DOL_DATA_OFFSET, FALSE)
         IN IF textOffset0 > 0 /\ textOffset0 < buf.byteLength THEN TRUE
            ELSE IF dataOffset0 > 0 /\ dataOffset0 < buf.byteLength THEN TRUE
            ELSE TRUE

detectFileType(filename, buf) ==
    LET extension == ToLowerCase(SplitPop(filename))
    IN IF extension = <<"w", "a", "d">>
       THEN (IF validateWadFile(buf) THEN "WAD" ELSE NoType)
       ELSE IF extension = <<"d", "o", "l">>
       THEN (IF validateDolFile(buf) THEN "DOL" ELSE NoType)
       ELSE NoType

\* The simplified handler of part_003: the same size tests, and no read of
\* the header.
validateWadFile_part003(buf) ==
    IF buf.byteLength < WAD_MIN_SIZE THEN FALSE
    ELSE TRUE

validateDolFile_part003(buf) ==
    IF buf.byteLength < DOL_MIN_SIZE THEN FALSE
    ELSE TRUE

detectFileType_part003(filename, buf) ==
    LET extension == ToLowerCase(SplitPop(filename))
    IN IF extension = <<"w", "a", "d">>
       THEN (IF validateWadFile_part003(buf) THEN "WAD" ELSE NoType)
       ELSE IF extension = <<"d", "o", "l">>
       THEN (IF validateDolFile_part003(buf) THEN "DOL" ELSE NoType)
       ELSE NoType

\* ------------------------------------------------------- BootMii validation

Abs(x) == IF x < 0 THEN -x ELSE x

\* validateBackupSize with the warning branch returning isValid: false
validateBackupSizeBlocking(size) ==
    LET difference == Abs(size - BOOTMII_STANDARD_SIZE)
    IN IF difference > SIZE_TOLERANCE * 10
       THEN [isValid |-> FALSE, isWarning |-> FALSE,
             message |-> "Error: File size does not match standard BootMii backup size. This may not be a valid backup file."]
       ELSE IF difference > SIZE_TOLERANCE
       THEN [isValid |-> FALSE, isWarning |-> TRUE,
             message |-> "Warning: File size differs slightly from standard BootMii backup size. Proceeding with validation..."]
       ELSE [isValid |-> TRUE, isWarning |-> FALSE, message |-> ""]

\* validateBackupSize with the warning threshold compared by >=
validateBackupSizeGe(size) ==
    LET difference == Abs(size - BOOTMII_STANDARD_SIZE)
    IN IF difference > SIZE_TOLERANCE * 10
       THEN [isValid |-> FALSE, isWarning |-> FALSE,
             message |-> "Error: File size does not match standard BootMii backup size. This may not be a valid backup file."]
       ELSE IF difference >= SIZE_TOLERANCE
       THEN [isValid |-> TRUE, isWarning |-> TRUE,
             message |-> "Warning: File size differs slightly from standard BootMii backup size. Proceeding with validation..."]
       ELSE [isValid |-> TRUE, isWarning |-> FALSE, message |-> ""]

\* The messages are template strings; the sizes they name are left out.
validateBackupSize(size) ==
    LET difference == Abs(size - BOOTMII_STANDARD_SIZE)
    IN IF difference > SIZE_TOLERANCE * 10
       THEN [isValid |-> FALSE, isWarning |-> FALSE,
             message |-> "Error: File size does not match standard BootMii backup size. This may not be a valid backup file."]
       ELSE IF difference > SIZE_TOLERANCE
       THEN [isValid |-> TRUE, isWarning |-> TRUE,
             message |-> "Warning: File size differs slightly from standard BootMii backup size. Proceeding with validation..."]
       ELSE [isValid |-> TRUE, isWarning |-> FALSE, message |-> ""]

Min(a, b) == IF a < b THEN a ELSE b

\* ScanOffsets with the loop stopping one word early
ScanOffsetsShort(buf) ==
    {i \in 0..(Min(1020, buf.byteLength) - 1) : i % 4 = 0}

\* The offsets the loop of performBackupValidation would visit if it never
\* left early: i = 0, 4, 8, ... while i < Math.min(1024, byteLength).
ScanOffsets(buf) ==
    {i \in 0..(Min(ZERO_SCAN_LIMIT, buf.byteLength) - 1) : i % 4 = 0}

\* How the loop ends: at the first offset where it leaves.  "data": break on
\* a non-zero little-endian word; "throw": getUint32 is asked for a word that
\* passes the end of the buffer; "empty": the loop runs out with hasData false.
ScanWords(buf) ==
    LET exits == {i \in ScanOffsets(buf) :
                     ~InRange32(buf, i) \/ GetUint32(buf, i, TRUE) # 0}
    IN IF exits = {} THEN "empty"
       ELSE LET first == CHOOSE i \in exits : \A j \in exits : i <= j
            IN IF ~InRange32(buf, first) THEN "throw" ELSE "data"

EmptyWarning ==
    "First 1KB of backup appears to be empty. This may indicate a corrupted backup."

\* threw: the call ended in a RangeError instead of returning a verdict
performBackupValidation(buf) ==
    IF buf.byteLength = 0
    THEN [threw |-> FALSE, isValid |-> FALSE,
          message |-> "Error: Backup file is empty.", warnings |-> <<>>]
    ELSE LET scan == ScanWords(buf)
         IN IF scan = "throw"
            THEN [threw |-> TRUE, isValid |-> FALSE, message |-> "", warnings |-> <<>>]
            ELSE [threw |-> FALSE, isValid |-> TRUE, message |-> "",
                  warnings |-> IF scan = "empty" THEN <<EmptyWarning>> ELSE <<>>]


\* ------------------------------------------------------------------- files

\* The File objects the user can pick on the WAD/DOL input.  The first four
\* (a WAD with the "Is" signature, a 10-byte game.wad, a DOL whose first
\* text offset is 1, a text file) are the ones the two-page specification
\* picks from; the reading specification picks from all of them.
WadFiles ==
    << [name |-> <<"g", ".", "w", "a", "d">>, size |-> 64,
        bytes |-> (0 :> 73 @@ 1 :> 115)],
       [name |-> <<"g", ".", "w", "a", "d">>, size |-> 10, bytes |-> <<>>],
       [name |-> <<"b", ".", "D", "O", "L">>, size |-> 256,
        bytes |-> (3 :> 1)],
       [name |-> <<"r", ".", "t", "x", "t">>, size |-> 100, bytes |-> <<>>],
       [name |-> <<"b", ".", "d", "o", "l">>, size |-> 255, bytes |-> (3 :> 1)],
       [name |-> <<"e", ".", "w", "a", "d">>, size |-> 0, bytes |-> <<>>],
       [name |-> <<"s", ".", "W", "A", "D">>, size |-> 63,
        bytes |-> (0 :> 73 @@ 1 :> 115)],
       [name |-> <<"x", ".", "w", "a", "d">>, size |-> 65, bytes |-> (0 :> 1)],
       [name |-> <<"d", ".", "d", "o", "l">>, size |-> 4, bytes |-> <<>>] >>

\* The File objects the user can pick on the BootMii input: a standard
\* backup, a 600 MB zero-filled file, a zero-filled backup 2 MiB over; then
\* standard-sized backups whose only non-zero byte is the last of the first
\* 1024 and the first after them.  The two-page specification picks from the
\* first three, the BootMii page on its own from all of them.
BackupFiles ==
    << [name |-> <<"n", ".", "b", "i", "n">>, size |-> BOOTMII_STANDARD_SIZE,
        bytes |-> (0 :> 1)],
       [name |-> <<"z", ".", "b", "i", "n">>, size |-> 629145600,
        bytes |-> <<>>],
       [name |-> <<"o", ".", "b", "i", "n">>,
        size |-> BOOTMII_STANDARD_SIZE + 2 * SIZE_TOLERANCE, bytes |-> <<>>],
       [name |-> <<"k", ".", "b", "i", "n">>, size |-> BOOTMII_STANDARD_SIZE,
        bytes |-> (1023 :> 1)],
       [name |-> <<"l", ".", "b", "i", "n">>, size |-> BOOTMII_STANDARD_SIZE,
        bytes |-> (1024 :> 1)] >>

WadIds == 1..Len(WadFiles)
FlowWadIds == {f \in WadIds : f <= 4}
BackupIds == 1..Len(BackupFiles)
FlowBackupIds == {f \in BackupIds : f <= 3}

\* FileReader.readAsArrayBuffer: evt.target.result
BufferOf(file) == [byteLength |-> file.size, bytes |-> file.bytes]

\* What the handlers compute from a File's content depends on the File
\* alone: detectFileType(file.name, arrayBuffer) in the WAD/DOL reader.onload
\* and performBackupValidation(arrayBuffer) in validateAndParseBackup.
WadTypeOf == [f \in WadIds |-> detectFileType(WadFiles[f].name, BufferOf(WadFiles[f]))]

\* the same for the handler of part_003
WadTypeOf_part003 ==
    [f \in WadIds |-> detectFileType_part003(WadFiles[f].name, BufferOf(WadFiles[f]))]

BackupValidationOf ==
    [f \in BackupIds |-> performBackupValidation(BufferOf(BackupFiles[f]))]

NoName == <<>>
NameOfWad(f) == IF f = 0 THEN NoName ELSE WadFiles[f].name
NameOfBackup(f) == IF f = 0 THEN NoName ELSE BackupFiles[f].name

\* ------------------------------------------------------------------- state

VARIABLES
    currentFile,      \* wad-handler.js: let currentFile (0 is null)
    currentFileType,  \* wad-handler.js: let currentFileType
    wadStatus,        \* #wad-dol-status: [cls, text, shown]
    wadInfo,          \* #wad-dol-info is displayed
    wadDetails,       \* #wad-dol-details innerHTML: [file, fileType]
    installButton,    \* #install-wad-dol is displayed
    wadProgress,      \* #wad-dol-progress: [shown, fill]
    wadReaders,       \* FileReaders of the WAD/DOL input still reading
    currentBackup,    \* bootmii-import.js: let currentBackup (0 is null)
    bmStatus,         \* #bootmii-status: [cls, text, shown]
    bmInfo,           \* #bootmii-info is displayed
    bmDetails,        \* #bootmii-details innerHTML: [file, warnings]
    restoreButton,    \* #restore-bootmii is displayed
    bmProgress,       \* #bootmii-progress: [shown, fill]
    bmReaders,        \* FileReaders of the BootMii input still reading
    modal,            \* #nand-warning-modal: [shown, message, onConfirm]
    ops,              \* the operations started, in order: the closure of each
                      \* setInterval callback and its timers
    cookie,           \* document.cookie: [lastWadDolInstall, lastBootMiiRestore]
    nSelect,          \* files selected so far
    probe,            \* a validator called on its own: the call and its result
    dolphinLoader,    \* the DolphinLoader object: [module, isReady, isLoading,
                      \* dolphinInstance, loadCallbacks, errorCallbacks]
    windowModule,     \* window.Module: "undefined", "config" (the object init
                      \* stores) or "runtime" (with FS and ccall)
    fsFiles,          \* Module.FS: the paths of the files written
    romResult,        \* the last call of a ROM load or of a method of the
                      \* loader: [fn, filename, result]
    promises,         \* the promises DolphinLoader.init has returned, in
                      \* order: "pending", "resolved" or "rejected"
    env,              \* what the browser holds of dolphin.js: [build,
                      \* scriptTag, runtime, wasmDefined]
    backendCalls,     \* the calls made on dolphinInstance, on the module and
                      \* on Module.FS.syncfs, in order
    emulatorReady,    \* page script: let emulatorReady
    emulatorType,     \* page script: let emulatorType
    statusCheckInterval, \* page script: let statusCheckInterval ("null" or
                      \* "set")
    currentROM,       \* page script: let currentROM (the name; <<>> is null)
    romStatus,        \* #emulator-status: [cls, text, shown]
    romLoads,         \* the ROM reads still going and the waitForEmulator
                      \* intervals still set: [id, name, phase]
    disclaimer,       \* #wii-disclaimer-modal and its page: [script, loaded,
                      \* display, opacity, hideTimers, nLoads, nClicks]
    disclaimerCookie, \* document.cookie: the value of wiiDisclaimerAccepted
                      \* as its characters (<<>>: no such cookie)
    page              \* the rest of the emulator page: [loaded, loaderDefined,
                      \* retroArch, hasLoader, initPromise, handled,
                      \* pollStarted, statusTimeout, nRom]

wadVars == <<currentFile, currentFileType, wadStatus, wadInfo, wadDetails,
             installButton, wadProgress, wadReaders>>
bmVars == <<currentBackup, bmStatus, bmInfo, bmDetails, restoreButton,
            bmProgress, bmReaders>>
vars == <<currentFile, currentFileType, wadStatus, wadInfo, wadDetails,
          installButton, wadProgress, wadReaders, currentBackup, bmStatus,
          bmInfo, bmDetails, restoreButton, bmProgress, bmReaders, modal, ops,
          cookie, nSelect, probe, dolphinLoader, windowModule, fsFiles,
          romResult, promises, env, backendCalls, emulatorReady,
          emulatorType, statusCheckInterval, currentROM, romStatus, romLoads,
          page, disclaimer, disclaimerCookie>>
\* the variables of the install and restore pages, which the loader and the
\* emulator page never touch
disclaimerVars == <<disclaimer, disclaimerCookie>>
flowVars == <<wadVars, bmVars, modal, ops, cookie, nSelect, probe,
              disclaimerVars>>
pageVars == <<emulatorReady, emulatorType, statusCheckInterval, currentROM,
              romStatus, romLoads, page>>
emuVars == <<dolphinLoader, windowModule, fsFiles, romResult, promises, env,
             backendCalls, pageVars, disclaimerVars>>

Text(msg, fileType, name) == [msg |-> msg, fileType |-> fileType, name |-> name]
NoText == Text("", "", NoName)

\* showStatus / showBootMiiStatus
showStatus(type, text) == [cls |-> type, text |-> text, shown |-> TRUE]

\* the status part of resetWadDolUI / resetBootMiiUI
ResetStatus(st) == [st EXCEPT !.cls = "", !.shown = FALSE]

\* A validator called on its own, outside the pages: fn and its arguments
\* (size, or name and buf), and out, its result once done.
NoOut == [isValid |-> FALSE, isWarning |-> FALSE, message |-> "",
          warnings |-> <<>>, threw |-> FALSE, fileType |-> NoType]
ProbeCall(fn, size, name, buf) ==
    [fn |-> fn, size |-> size, name |-> name, buf |-> buf, done |-> FALSE,
     out |-> NoOut]
NoBuffer == [byteLength |-> 0, bytes |-> <<>>]
IdleProbe == ProbeCall("none", 0, <<>>, NoBuffer)

NoDetails == [file |-> 0, fileType |-> NoType, warnings |-> <<>>]
NoCookie == [filename |-> NoName, type |-> NoType, size |-> 0]
NoMessage == [op |-> "none", name |-> NoName]

\* The disclaimer script of a page not loaded yet: script names the variant,
\* "part_001" (the accept button, the modal hidden at once) or "part_002"
\* (a click anywhere on the modal, hidden 500 ms after the fade starts).
\* The modal is not displayed until the script shows it.
NewDisclaimer(script) ==
    [script |-> script, loaded |-> FALSE, display |-> "none", opacity |-> "",
     hideTimers |-> 0, nLoads |-> 0, nClicks |-> 0]

NoValue == <<>>
TrueValue == <<"t", "r", "u", "e">>

\* no visit yet: no cookie of the disclaimer
NoDisclaimer ==
    /\ disclaimer = NewDisclaimer("part_001")
    /\ disclaimerCookie = NoValue

\* the pages after DOMContentLoaded: nothing selected, the buttons, the bars
\* and the modal not displayed
FlowInit ==
    /\ currentFile = 0
    /\ currentFileType = NoType
    /\ wadStatus = [cls |-> "", text |-> NoText, shown |-> FALSE]
    /\ wadInfo = FALSE
    /\ wadDetails = NoDetails
    /\ installButton = FALSE
    /\ wadProgress = [shown |-> FALSE, fill |-> 0]
    /\ wadReaders = {}
    /\ currentBackup = 0
    /\ bmStatus = [cls |-> "", text |-> NoText, shown |-> FALSE]
    /\ bmInfo = FALSE
    /\ bmDetails = NoDetails
    /\ restoreButton = FALSE
    /\ bmProgress = [shown |-> FALSE, fill |-> 0]
    /\ bmReaders = {}
    /\ modal = [shown |-> FALSE, message |-> NoMessage, onConfirm |-> "none",
                superseded |-> "none"]
    /\ ops = <<>>
    /\ cookie = [lastWadDolInstall |-> NoCookie, lastBootMiiRestore |-> NoCookie]
    /\ nSelect = 0

\* new DolphinLoader()
NewLoader ==
    [module |-> "null", isReady |-> FALSE, isLoading |-> FALSE,
     dolphinInstance |-> FALSE, loadCallbacks |-> <<>>, errorCallbacks |-> <<>>]

NoResult == [fn |-> "none", filename |-> <<>>, result |-> "none"]

\* What dolphin.js can be on the server: not there; the placeholder of the
\* repository, which logs three lines and defines nothing; a build with the
\* Embind class DolphinWasm, exporting FS and ccall or not; a build with FS
\* and ccall only; a build that exports neither.
DolphinBuilds == {"missing", "stub", "embind", "embindNoFS", "ccall", "bare"}
HasRuntime(build) == build \in {"embind", "embindNoFS", "ccall", "bare"}
DefinesWasm(build) == build \in {"embind", "embindNoFS"}
ExportsFS(build) == build \in {"embind", "ccall"}

\* no script element for dolphin.js, no runtime, DolphinWasm not defined
NoScript(build) ==
    [build |-> build, scriptTag |-> "none", runtime |-> "none",
     wasmDefined |-> FALSE]

\* no emulator script has run: window.Module is not defined
EmuInit ==
    /\ dolphinLoader = NewLoader
    /\ windowModule = "undefined"
    /\ fsFiles = {}
    /\ romResult = NoResult
    /\ promises = <<>>
    /\ env = NoScript("stub")
    /\ backendCalls = <<>>

\* The emulator page before DOMContentLoaded.  loaderDefined: the page
\* includes dolphin-loader.js (typeof DolphinLoader !== 'undefined');
\* retroArch: the RetroArch runtime of libretro.js, "absent", "loading" or
\* "ready"; hasLoader: dolphinLoader of the page script is not null;
\* initPromise: the promise of dolphinLoader.init (0: none), handled once
\* its then or catch has run; pollStarted: checkRetroArchStatus was called;
\* statusTimeout: its 30 s timer is pending; nRom: ROM files selected;
\* pollLoads: the selections a waitForEmulator tick has loaded; expired:
\* those whose 20 s timer cleared the interval first; pauseLabel: the text
\* of #pause-btn; paused: the main loop of the backend is paused; nToggle:
\* clicks on #pause-btn.
NewPage(loaderDefined, retroArch) ==
    [loaded |-> FALSE, loaderDefined |-> loaderDefined,
     retroArch |-> retroArch, hasLoader |-> FALSE, initPromise |-> 0,
     handled |-> FALSE, pollStarted |-> FALSE, statusTimeout |-> FALSE,
     nRom |-> 0, pollLoads |-> {}, expired |-> {}, pauseLabel |-> "Pause",
     paused |-> FALSE, nToggle |-> 0]

\* the globals of the page script and the page without any loader
PageInit ==
    /\ emulatorReady = FALSE
    /\ emulatorType = "retroarch"
    /\ statusCheckInterval = "null"
    /\ currentROM = NoName
    /\ romStatus = [cls |-> "", text |-> NoText, shown |-> FALSE]
    /\ romLoads = {}

Init ==
    /\ FlowInit
    /\ NoDisclaimer
    /\ probe = IdleProbe
    /\ EmuInit
    /\ PageInit
    /\ page = NewPage(FALSE, "absent")

\* ------------------------------------------------------------ file reading

RECURSIVE GCD(_, _)
GCD(a, b) == IF b = 0 THEN a ELSE GCD(b, a % b)

\* Math.round((loaded / total) * 100), total > 0; the fraction is reduced
\* first so that the product stays a 32-bit number.
PercentLoaded(loaded, total) ==
    LET g == GCD(total, loaded)
        l == loaded \div g
        t == total \div g
    IN (200 * l + t) \div (2 * t)

\* the e.loaded values a progress event may carry for a file of this size
LoadedSteps(size) == {size \div 2, size}

\* new FileReader(): loaded is e.loaded of its last progress event, percent
\* the value it last passed to updateProgress (0 when the read starts)
NewReader(f) == [id |-> nSelect + 1, file |-> f, loaded |-> 0, percent |-> 0]

\* ------------------------------------------------------------ warning modal

\* showNandWarning adding its listener only to a button that has none: the
\* buttons are not replaced and the listener of an earlier warning stays
showNandWarningKeepsListener(message, onConfirm) ==
    [shown |-> TRUE, message |-> message,
     onConfirm |-> IF modal.onConfirm = "none" THEN onConfirm
                   ELSE modal.onConfirm,
     superseded |-> IF modal.shown /\ modal.onConfirm # onConfirm
                    THEN modal.onConfirm ELSE "none"]

\* showNandWarning(message, onConfirm): the modal is shown and the confirm
\* and cancel buttons are replaced by clones that carry only the new
\* listeners.  onConfirm names the closure: "install" is
\* () => performNandInstallation(currentFile, currentFileType), "restore" is
\* () => performBackupRestore(currentBackup); both read the variables when
\* they run.  superseded names the closure of the buttons thrown away while
\* their warning was still open, when it is not the closure that replaces it.
showNandWarning(message, onConfirm) ==
    [shown |-> TRUE, message |-> message, onConfirm |-> onConfirm,
     superseded |-> IF modal.shown /\ modal.onConfirm # onConfirm
                    THEN modal.onConfirm ELSE "none"]

\* ------------------------------------------------------------ WAD/DOL flow

\* fileInput 'change' with no file chosen: if (!file) return
WadChangeNoFile ==
    /\ UNCHANGED <<wadVars, bmVars, modal, ops, cookie, nSelect>>
    /\ UNCHANGED <<probe, emuVars>>

\* fileInput 'change'
WadChange(f) ==
    /\ nSelect < MaxSelect
    /\ currentFile' = f
    /\ wadStatus' = ResetStatus(wadStatus)
    /\ wadInfo' = FALSE
    /\ installButton' = FALSE
    /\ wadProgress' = [shown |-> TRUE, fill |-> 0]
    /\ wadReaders' = wadReaders \cup {NewReader(f)}
    /\ nSelect' = nSelect + 1
    /\ UNCHANGED <<currentFileType, wadDetails, bmVars, modal, ops, cookie>>
    /\ UNCHANGED <<probe, emuVars>>

\* reader.onprogress without the test of e.lengthComputable
WadReaderProgressAlways(r, lengthComputable, loaded) ==
    /\ r \in wadReaders
    /\ WadFiles[r.file].size > 0
    /\ loaded >= r.loaded
    /\ LET percentLoaded == PercentLoaded(loaded, WadFiles[r.file].size)
       IN /\ wadReaders' = (wadReaders \ {r}) \cup
                 {[r EXCEPT !.loaded = loaded, !.percent = percentLoaded]}
          /\ wadProgress' = [wadProgress EXCEPT !.fill = percentLoaded]
    /\ UNCHANGED <<currentFile, currentFileType, wadStatus, wadInfo, wadDetails,
                   installButton, bmVars, modal, ops, cookie, nSelect>>
    /\ UNCHANGED <<probe, emuVars>>

\* reader.onprogress.  A progress event is lengthComputable only when the
\* total is not 0; e.loaded never goes back.
WadReaderProgress(r, lengthComputable, loaded) ==
    /\ r \in wadReaders
    /\ lengthComputable => WadFiles[r.file].size > 0
    /\ loaded >= r.loaded
    /\ IF lengthComputable
       THEN LET percentLoaded == PercentLoaded(loaded, WadFiles[r.file].size)
            IN /\ wadReaders' = (wadReaders \ {r}) \cup
                      {[r EXCEPT !.loaded = loaded, !.percent = percentLoaded]}
               /\ wadProgress' = [wadProgress EXCEPT !.fill = percentLoaded]
       ELSE /\ wadReaders' = (wadReaders \ {r}) \cup {[r EXCEPT !.loaded = loaded]}
            /\ wadProgress' = wadProgress
    /\ UNCHANGED <<currentFile, currentFileType, wadStatus, wadInfo, wadDetails,
                   installButton, bmVars, modal, ops, cookie, nSelect>>
    /\ UNCHANGED <<probe, emuVars>>

\* reader.onload; handleWadFile and handleDolFile differ in the texts only
WadReaderLoad(r) ==
    /\ r \in wadReaders
    /\ LET file == WadFiles[r.file]
           fileType == WadTypeOf[r.file]
       IN /\ wadReaders' = wadReaders \ {r}
          /\ currentFileType' = fileType
          /\ IF fileType = "WAD" \/ fileType = "DOL"
             THEN /\ wadDetails' = [file |-> r.file, fileType |-> fileType,
                                    warnings |-> <<>>]
                  /\ wadInfo' = TRUE
                  /\ installButton' = TRUE
                  /\ wadProgress' = [shown |-> FALSE, fill |-> 100]
                  /\ wadStatus' = showStatus("success",
                         Text("file loaded successfully! Review the information above.",
                              fileType, NoName))
             ELSE /\ wadStatus' = showStatus("error",
                         Text("Invalid file type. Please select a .wad or .dol file.",
                              "", NoName))
                  /\ wadProgress' = [shown |-> FALSE, fill |-> 100]
                  /\ UNCHANGED <<wadDetails, wadInfo, installButton>>
    /\ UNCHANGED <<currentFile, bmVars, modal, ops, cookie, nSelect>>
    /\ UNCHANGED <<probe, emuVars>>

\* reader.onload of the handler of part_003
WadReaderLoad_part003(r) ==
    /\ r \in wadReaders
    /\ LET file == WadFiles[r.file]
           fileType == WadTypeOf_part003[r.file]
       IN /\ wadReaders' = wadReaders \ {r}
          /\ currentFileType' = fileType
          /\ IF fileType = "WAD" \/ fileType = "DOL"
             THEN /\ wadDetails' = [file |-> r.file, fileType |-> fileType,
                                    warnings |-> <<>>]
                  /\ wadInfo' = TRUE
                  /\ installButton' = TRUE
                  /\ wadProgress' = [shown |-> FALSE, fill |-> 100]
                  /\ wadStatus' = showStatus("success",
                         Text("file loaded successfully! Review the information above.",
                              fileType, NoName))
             ELSE /\ wadStatus' = showStatus("error",
                         Text("Invalid file type. Please select a .wad or .dol file.",
                              "", NoName))
                  /\ wadProgress' = [shown |-> FALSE, fill |-> 100]
                  /\ UNCHANGED <<wadDetails, wadInfo, installButton>>
    /\ UNCHANGED <<currentFile, bmVars, modal, ops, cookie, nSelect>>
    /\ UNCHANGED <<probe, emuVars>>

\* reader.onerror handled as if the read had completed
WadReaderErrorLoads(r) == WadReaderLoad(r)

\* reader.onerror
WadReaderError(r) ==
    /\ r \in wadReaders
    /\ wadReaders' = wadReaders \ {r}
    /\ wadStatus' = showStatus("error",
                        Text("Error reading file. Please try again.", "", NoName))
    /\ wadProgress' = [wadProgress EXCEPT !.shown = FALSE]
    /\ UNCHANGED <<currentFile, currentFileType, wadInfo, wadDetails,
                   installButton, bmVars, modal, ops, cookie, nSelect>>
    /\ UNCHANGED <<probe, emuVars>>


\* ---------------------------------------------------- the timed operations

NewOp(kind, file, fileType) ==
    [kind |-> kind, file |-> file, fileType |-> fileType, progress |-> 0,
     interval |-> TRUE, hideTimer |-> FALSE]

\* InstallTickOp with the test written progress > 100
InstallTickOpGt(op) ==
    LET progress == op.progress + InstallStep
    IN IF progress > 100
       THEN [op EXCEPT !.progress = progress, !.interval = FALSE,
                       !.hideTimer = TRUE]
       ELSE [op EXCEPT !.progress = progress]

\* RestoreTickOp without the clearInterval
RestoreTickOpNoClear(op) ==
    LET progress == op.progress + RestoreStep
    IN IF progress >= 100
       THEN [op EXCEPT !.progress = progress, !.hideTimer = TRUE]
       ELSE [op EXCEPT !.progress = progress]

\* One run of the setInterval callback of performNandInstallation on its
\* closure: progress += 10 and, from 100 on, clearInterval and the
\* setTimeout that hides the bar.
InstallTickOp(op) ==
    LET progress == op.progress + InstallStep
    IN IF progress >= 100
       THEN [op EXCEPT !.progress = progress, !.interval = FALSE,
                       !.hideTimer = TRUE]
       ELSE [op EXCEPT !.progress = progress]

\* The same for performBackupRestore: progress += 5.
RestoreTickOp(op) ==
    LET progress == op.progress + RestoreStep
    IN IF progress >= 100
       THEN [op EXCEPT !.progress = progress, !.interval = FALSE,
                       !.hideTimer = TRUE]
       ELSE [op EXCEPT !.progress = progress]

\* performNandInstallation(file, fileType) up to and including setInterval
performNandInstallation(file, fileType) ==
    /\ wadStatus' = showStatus("info",
                        Text("Installing file to virtual NAND...", fileType, NoName))
    /\ wadProgress' = [wadProgress EXCEPT !.shown = TRUE]
    /\ ops' = Append(ops, NewOp("install", file, fileType))
    /\ UNCHANGED <<currentFile, currentFileType, wadInfo, wadDetails,
                   installButton, wadReaders, bmVars>>

\* performBackupRestore(file) up to and including setInterval
performBackupRestore(file) ==
    /\ bmStatus' = showStatus("info",
                       Text("Restoring BootMii backup to virtual NAND...", "", NoName))
    /\ bmProgress' = [bmProgress EXCEPT !.shown = TRUE]
    /\ ops' = Append(ops, NewOp("restore", file, NoType))
    /\ UNCHANGED <<currentBackup, bmInfo, bmDetails, restoreButton, bmReaders,
                   wadVars>>

\* InstallClick calling performNandInstallation itself, without the modal
InstallClickDirect ==
    /\ installButton
    /\ currentFile # 0 /\ currentFileType # NoType
    /\ Len(ops) < MaxOps
    /\ performNandInstallation(currentFile, currentFileType)
    /\ UNCHANGED <<modal, cookie, nSelect, probe, emuVars>>

\* installButton 'click'; a button that is not displayed cannot be clicked
InstallClick ==
    /\ installButton
    /\ IF currentFile # 0 /\ currentFileType # NoType
       THEN /\ modal' = showNandWarning(
                            [op |-> "install", name |-> NameOfWad(currentFile)],
                            "install")
       ELSE /\ modal' = modal
    /\ UNCHANGED <<wadVars, bmVars, ops, cookie, nSelect>>
    /\ UNCHANGED <<probe, emuVars>>

\* the confirm button's 'click' listener; the button is inside the modal
ConfirmClick ==
    /\ modal.shown
    /\ modal.onConfirm # "none"
    /\ Len(ops) < MaxOps
    /\ modal' = [modal EXCEPT !.shown = FALSE]
    /\ IF modal.onConfirm = "install"
       THEN /\ performNandInstallation(currentFile, currentFileType)
       ELSE /\ performBackupRestore(currentBackup)
    /\ UNCHANGED <<cookie, nSelect>>
    /\ UNCHANGED <<probe, emuVars>>

\* CancelClick with the confirm listener's body: it runs onConfirm too
CancelClickConfirms == ConfirmClick

\* CancelClick that also clears the interval of every operation
CancelClickStops ==
    /\ modal.shown
    /\ modal.onConfirm # "none"
    /\ modal' = [modal EXCEPT !.shown = FALSE]
    /\ ops' = [i \in DOMAIN ops |-> [ops[i] EXCEPT !.interval = FALSE]]
    /\ UNCHANGED <<wadVars, bmVars, cookie, nSelect, probe, emuVars>>

\* the cancel button's 'click' listener
CancelClick ==
    /\ modal.shown
    /\ modal.onConfirm # "none"
    /\ modal' = [modal EXCEPT !.shown = FALSE]
    /\ UNCHANGED <<wadVars, bmVars, ops, cookie, nSelect>>
    /\ UNCHANGED <<probe, emuVars>>

\* the interval callback storing the record under the file chosen last
InstallTickNamesCurrent(i) ==
    /\ i \in 1..Len(ops)
    /\ ops[i].kind = "install"
    /\ ops[i].interval
    /\ LET op == InstallTickOp(ops[i])
       IN /\ ops' = [ops EXCEPT ![i] = op]
          /\ wadProgress' = [wadProgress EXCEPT !.fill = op.progress]
          /\ IF op.progress >= 100
             THEN /\ wadStatus' = showStatus("success",
                         Text("installed successfully to virtual NAND!",
                              op.fileType, NameOfWad(op.file)))
                  /\ cookie' = [cookie EXCEPT !.lastWadDolInstall =
                         [filename |-> NameOfWad(currentFile),
                          type |-> currentFileType, size |-> 0]]
             ELSE /\ UNCHANGED <<wadStatus, cookie>>
    /\ UNCHANGED <<currentFile, currentFileType, wadInfo, wadDetails,
                   installButton, wadReaders, bmVars, modal, nSelect>>
    /\ UNCHANGED <<probe, emuVars>>

\* the setInterval callback of performNandInstallation, every 300 ms
InstallTick(i) ==
    /\ i \in 1..Len(ops)
    /\ ops[i].kind = "install"
    /\ ops[i].interval
    /\ LET op == InstallTickOp(ops[i])
       IN /\ ops' = [ops EXCEPT ![i] = op]
          /\ wadProgress' = [wadProgress EXCEPT !.fill = op.progress]
          /\ IF op.progress >= 100
             THEN /\ wadStatus' = showStatus("success",
                         Text("installed successfully to virtual NAND!",
                              op.fileType, NameOfWad(op.file)))
                  /\ cookie' = [cookie EXCEPT !.lastWadDolInstall =
                         [filename |-> NameOfWad(op.file), type |-> op.fileType,
                          size |-> 0]]
             ELSE                  /\ UNCHANGED <<wadStatus, cookie>>
    /\ UNCHANGED <<currentFile, currentFileType, wadInfo, wadDetails,
                   installButton, wadReaders, bmVars, modal, nSelect>>
    /\ UNCHANGED <<probe, emuVars>>

\* the setTimeout callback, 2 s after the success of an operation
HideTimer(i) ==
    /\ i \in 1..Len(ops)
    /\ ops[i].hideTimer
    /\ ops' = [ops EXCEPT ![i].hideTimer = FALSE]
    /\ IF ops[i].kind = "install"
       THEN /\ wadProgress' = [wadProgress EXCEPT !.shown = FALSE]
            /\ bmProgress' = bmProgress
       ELSE /\ bmProgress' = [bmProgress EXCEPT !.shown = FALSE]
            /\ wadProgress' = wadProgress
    /\ UNCHANGED <<currentFile, currentFileType, wadStatus, wadInfo, wadDetails,
                   installButton, wadReaders, currentBackup, bmStatus, bmInfo,
                   bmDetails, restoreButton, bmReaders, modal, cookie, nSelect>>
    /\ UNCHANGED <<probe, emuVars>>

\* ------------------------------------------------------------ BootMii flow

\* fileInput 'change' with no file chosen: if (!file) return
BmChangeNoFile ==
    /\ UNCHANGED <<wadVars, bmVars, modal, ops, cookie, nSelect>>
    /\ UNCHANGED <<probe, emuVars>>

\* fileInput 'change'
BmChange(f) ==
    /\ nSelect < MaxSelect
    /\ currentBackup' = f
    /\ bmInfo' = FALSE
    /\ restoreButton' = FALSE
    /\ nSelect' = nSelect + 1
    /\ LET sizeValid == validateBackupSize(BackupFiles[f].size)
       IN IF ~sizeValid.isValid
          THEN /\ bmStatus' = showStatus("error", Text(sizeValid.message, "", NoName))
               /\ bmProgress' = [shown |-> FALSE, fill |-> 0]
               /\ bmReaders' = bmReaders
          ELSE /\ bmStatus' = IF sizeValid.isWarning
                              THEN showStatus("info", Text(sizeValid.message, "", NoName))
                              ELSE ResetStatus(bmStatus)
               /\ bmProgress' = [shown |-> TRUE, fill |-> 0]
               /\ bmReaders' = bmReaders \cup {NewReader(f)}
    /\ UNCHANGED <<bmDetails, wadVars, modal, ops, cookie>>
    /\ UNCHANGED <<probe, emuVars>>

\* reader.onprogress
BmReaderProgress(r, lengthComputable, loaded) ==
    /\ r \in bmReaders
    /\ lengthComputable => BackupFiles[r.file].size > 0
    /\ loaded >= r.loaded
    /\ IF lengthComputable
       THEN LET percentLoaded == PercentLoaded(loaded, BackupFiles[r.file].size)
            IN /\ bmReaders' = (bmReaders \ {r}) \cup
                      {[r EXCEPT !.loaded = loaded, !.percent = percentLoaded]}
               /\ bmProgress' = [bmProgress EXCEPT !.fill = percentLoaded]
       ELSE /\ bmReaders' = (bmReaders \ {r}) \cup {[r EXCEPT !.loaded = loaded]}
            /\ bmProgress' = bmProgress
    /\ UNCHANGED <<currentBackup, bmStatus, bmInfo, bmDetails, restoreButton,
                   wadVars, modal, ops, cookie, nSelect>>
    /\ UNCHANGED <<probe, emuVars>>

\* reader.onload: updateBootMiiProgress(100), then validateAndParseBackup
BmReaderLoad(r) ==
    /\ r \in bmReaders
    /\ bmReaders' = bmReaders \ {r}
    /\ LET validation == BackupValidationOf[r.file]
       IN IF validation.threw
          THEN /\ bmProgress' = [bmProgress EXCEPT !.fill = 100]
               /\ UNCHANGED <<bmStatus, bmInfo, bmDetails, restoreButton>>
          ELSE IF ~validation.isValid
          THEN /\ bmStatus' = showStatus("error", Text(validation.message, "", NoName))
               /\ bmProgress' = [shown |-> FALSE, fill |-> 100]
               /\ UNCHANGED <<bmInfo, bmDetails, restoreButton>>
          ELSE /\ bmDetails' = [file |-> r.file, fileType |-> NoType,
                                warnings |-> validation.warnings]
               /\ bmInfo' = TRUE
               /\ restoreButton' = TRUE
               /\ bmProgress' = [shown |-> FALSE, fill |-> 100]
               /\ bmStatus' = showStatus("success",
                      Text("BootMii backup loaded and validated successfully!",
                           "", NoName))
    /\ UNCHANGED <<currentBackup, wadVars, modal, ops, cookie, nSelect>>
    /\ UNCHANGED <<probe, emuVars>>

\* reader.onerror
BmReaderError(r) ==
    /\ r \in bmReaders
    /\ bmReaders' = bmReaders \ {r}
    /\ bmStatus' = showStatus("error",
                       Text("Error reading backup file. Please try again.", "", NoName))
    /\ bmProgress' = [bmProgress EXCEPT !.shown = FALSE]
    /\ UNCHANGED <<currentBackup, bmInfo, bmDetails, restoreButton, wadVars,
                   modal, ops, cookie, nSelect>>
    /\ UNCHANGED <<probe, emuVars>>

\* restoreButton 'click'; a button that is not displayed cannot be clicked
RestoreClick ==
    /\ restoreButton
    /\ IF currentBackup # 0
       THEN /\ modal' = showNandWarning(
                            [op |-> "restore", name |-> NameOfBackup(currentBackup)],
                            "restore")
       ELSE /\ modal' = modal
    /\ UNCHANGED <<wadVars, bmVars, ops, cookie, nSelect>>
    /\ UNCHANGED <<probe, emuVars>>

\* the setInterval callback of performBackupRestore, every 200 ms
RestoreTick(i) ==
    /\ i \in 1..Len(ops)
    /\ ops[i].kind = "restore"
    /\ ops[i].interval
    /\ LET op == RestoreTickOp(ops[i])
       IN /\ ops' = [ops EXCEPT ![i] = op]
          /\ bmProgress' = [bmProgress EXCEPT !.fill = op.progress]
          /\ IF op.progress >= 100
             THEN /\ bmStatus' = showStatus("success",
                         Text("BootMii backup restored successfully!",
                              "", NameOfBackup(op.file)))
                  /\ cookie' = [cookie EXCEPT !.lastBootMiiRestore =
                         [filename |-> NameOfBackup(op.file), type |-> NoType,
                          size |-> BackupFiles[op.file].size]]
             ELSE                  /\ UNCHANGED <<bmStatus, cookie>>
    /\ UNCHANGED <<currentBackup, bmInfo, bmDetails, restoreButton, bmReaders,
                   wadVars, modal, nSelect>>
    /\ UNCHANGED <<probe, emuVars>>

\* ------------------------------------------------------ ROM load into the FS

\* A path is the sequence of its segments: "/roms/a/b.iso" is
\* <<"roms", "a", "b.iso">>, "/" is <<>>.  A file name is given by its
\* segments between '/': "../g.iso" is <<"..", "g.iso">>.

\* the file names a caller can pass
RomNames ==
    { <<"g.iso">>, <<"..", "g.iso">>, <<"..", "saves", "g.iso">>,
      <<"a", "g.iso">>, <<"a", "..", "g.iso">>, <<"..">>, <<".">>,
      <<"", "g.iso">> }

\* Module.FS resolves a path before it looks it up: empty and "." segments
\* are dropped, ".." removes the segment before it and stays at the root.
RECURSIVE NormalizeFrom(_, _, _)
NormalizeFrom(path, i, acc) ==
    IF i > Len(path) THEN acc
    ELSE IF path[i] = "" \/ path[i] = "." THEN NormalizeFrom(path, i + 1, acc)
    ELSE IF path[i] = ".."
    THEN NormalizeFrom(path, i + 1,
                       IF acc = <<>> THEN acc ELSE SubSeq(acc, 1, Len(acc) - 1))
    ELSE NormalizeFrom(path, i + 1, Append(acc, path[i]))

Normalize(path) == NormalizeFrom(path, 1, <<>>)

\* the directories of the file system: those of the runtime, and those
\* setupFileSystem has made once the loader is ready
FsDirs ==
    { <<>>, <<"tmp">>, <<"home">>, <<"dev">>, <<"proc">> }
    \cup (IF dolphinLoader.isReady
          THEN { <<"roms">>, <<"saves">>, <<"states">>, <<"user">> }
          ELSE {})

\* the path FS.writeFile(path, data) writes to
WriteTarget(path) == Normalize(path)

\* FS.writeFile throws when the target is a directory or its parent is not
\* a directory
WriteFails(path) ==
    LET target == WriteTarget(path)
    IN \/ target \in FsDirs
       \/ SubSeq(target, 1, Len(target) - 1) \notin FsDirs
       \/ SubSeq(target, 1, Len(target) - 1) \in fsFiles

\* A call on the backend: on is "dolphinInstance", "module" or "FS", fn the
\* method (for ccall, the function called), arg the slot if there is one.
Call(on, fn, arg) == [on |-> on, fn |-> fn, arg |-> arg]

\* what bootROM(filename, data) returns or throws; booted is what
\* dolphinInstance.bootFile(romPath) returns
BootROMResult(loader, filename, booted) ==
    IF ~loader.isReady THEN "not ready"
    ELSE IF loader.module = "null"
            \/ windowModule # "runtime"
            \/ WriteFails(<<"roms">> \o filename)
    THEN "throw"
    ELSE IF loader.dolphinInstance
    THEN (IF booted THEN "true" ELSE "false")
    ELSE "true"

\* the file bootROM writes
BootROMWrites(loader, filename, booted) ==
    IF BootROMResult(loader, filename, booted) \in {"true", "false"}
    THEN {WriteTarget(<<"roms">> \o filename)}
    ELSE {}

\* the boot bootROM attempts
BootROMCalls(loader, filename, booted) ==
    IF BootROMResult(loader, filename, booted) \in {"true", "false"}
    THEN IF loader.dolphinInstance
         THEN << Call("dolphinInstance", "bootFile", <<>>) >>
         ELSE << Call("module", "BootManager_BootFile", <<>>) >>
    ELSE <<>>

\* bootROM skipping its readiness test
bootROMUnguarded(filename, booted) ==
    LET loader == [dolphinLoader EXCEPT !.isReady = TRUE]
    IN /\ Len(backendCalls) + Len(BootROMCalls(loader, filename, booted))
             <= MaxCalls
       /\ romResult' = [fn |-> "bootROM", filename |-> filename,
                        result |-> BootROMResult(loader, filename, booted)]
       /\ fsFiles' = fsFiles \cup BootROMWrites(loader, filename, booted)
       /\ backendCalls' =
             backendCalls \o BootROMCalls(loader, filename, booted)
       /\ UNCHANGED <<dolphinLoader, windowModule, promises, env>>
       /\ UNCHANGED <<flowVars, pageVars>>

\* DolphinLoader.bootROM(filename, data)
bootROM(filename, booted) ==
    /\ Len(backendCalls) + Len(BootROMCalls(dolphinLoader, filename, booted))
          <= MaxCalls
    /\ romResult' = [fn |-> "bootROM", filename |-> filename,
                     result |-> BootROMResult(dolphinLoader, filename, booted)]
    /\ fsFiles' = fsFiles \cup BootROMWrites(dolphinLoader, filename, booted)
    /\ backendCalls' =
          backendCalls \o BootROMCalls(dolphinLoader, filename, booted)
    /\ UNCHANGED <<dolphinLoader, windowModule, promises, env>>
    /\ UNCHANGED <<flowVars, pageVars>>

\* what loadROMIntoRetroArch(filename, data) does: nothing without
\* Module.FS, else the write, whose exception it catches
RetroArchLoadResult(filename) ==
    IF windowModule # "runtime" THEN "no filesystem"
    ELSE IF WriteFails(<<"tmp">> \o filename) THEN "caught"
    ELSE "written"

\* the file loadROMIntoRetroArch writes
RetroArchLoadWrites(filename) ==
    IF RetroArchLoadResult(filename) = "written"
    THEN {WriteTarget(<<"tmp">> \o filename)}
    ELSE {}

\* loadROMIntoRetroArch(filename, data)
loadROMIntoRetroArch(filename) ==
    /\ romResult' = [fn |-> "loadROMIntoRetroArch", filename |-> filename,
                     result |-> RetroArchLoadResult(filename)]
    /\ fsFiles' = fsFiles \cup RetroArchLoadWrites(filename)
    /\ UNCHANGED <<dolphinLoader, windowModule, promises, env, backendCalls>>
    /\ UNCHANGED <<flowVars, pageVars>>

\* ------------------------------------------------------- the Dolphin loader

\* the promises whose resolve (or reject) function is in the list ids
Settle(ps, ids, outcome) ==
    [i \in DOMAIN ps |->
        IF ps[i] = "pending" /\ (\E k \in DOMAIN ids : ids[k] = i)
        THEN outcome ELSE ps[i]]

\* init that starts a load whenever the loader is not ready, loading or not
InitOnRestarts(loader) ==
    LET p == Len(promises) + 1
    IN IF loader.isReady
       THEN /\ promises' = Append(promises, "resolved")
            /\ dolphinLoader' = loader
            /\ UNCHANGED <<windowModule, env>>
       ELSE /\ promises' = Append(promises, "pending")
            /\ dolphinLoader' =
                  [loader EXCEPT
                     !.isLoading = TRUE,
                     !.module = "Module2",
                     !.loadCallbacks = Append(@, p),
                     !.errorCallbacks = Append(@, p)]
            /\ windowModule' = "config"
            /\ env' = [env EXCEPT !.scriptTag = "loading"]

\* init(config) called on loader: the loader, window.Module, the script
\* element and the promise returned.  A ready loader returns
\* Promise.resolve(); a loading one queues the new promise; otherwise the
\* load starts: window.Module = moduleConfig, and loadDolphinScript unless
\* DolphinWasm is defined, which adds a script element unless one with that
\* src is in the document.
InitOn(loader) ==
    LET p == Len(promises) + 1
    IN IF loader.isReady
       THEN /\ promises' = Append(promises, "resolved")
            /\ dolphinLoader' = loader
            /\ UNCHANGED <<windowModule, env>>
       ELSE /\ promises' = Append(promises, "pending")
            /\ IF loader.isLoading
               THEN /\ dolphinLoader' =
                          [loader EXCEPT
                             !.loadCallbacks = Append(@, p),
                             !.errorCallbacks = Append(@, p)]
                    /\ UNCHANGED <<windowModule, env>>
               ELSE /\ dolphinLoader' =
                          [loader EXCEPT
                             !.isLoading = TRUE,
                             !.module = "Module",
                             !.loadCallbacks = Append(@, p),
                             !.errorCallbacks = Append(@, p)]
                    /\ windowModule' = "config"
                    /\ env' = IF ~env.wasmDefined /\ env.scriptTag = "none"
                              THEN [env EXCEPT !.scriptTag = "loading"]
                              ELSE env

\* init without its test of isReady
initIgnoresReady ==
    /\ Len(promises) < MaxInit
    /\ InitOn([dolphinLoader EXCEPT !.isReady = FALSE])
    /\ UNCHANGED <<fsFiles, romResult, backendCalls, flowVars, pageVars>>

\* dolphinLoader.init(config)
init ==
    /\ Len(promises) < MaxInit
    /\ InitOn(dolphinLoader)
    /\ UNCHANGED <<fsFiles, romResult, backendCalls, flowVars, pageVars>>

\* notifyError that leaves the lists as they are
notifyErrorKeepsLists(loader) ==
    /\ promises' = Settle(promises, loader.errorCallbacks, "rejected")
    /\ dolphinLoader' = loader

\* notifyError(error): every errorCallback is called, both lists are cleared
notifyError(loader) ==
    /\ promises' = Settle(promises, loader.errorCallbacks, "rejected")
    /\ dolphinLoader' = [loader EXCEPT !.loadCallbacks = <<>>,
                                        !.errorCallbacks = <<>>]

\* notifyReady(): every loadCallback is called, both lists are cleared
notifyReady(loader) ==
    /\ promises' = Settle(promises, loader.loadCallbacks, "resolved")
    /\ dolphinLoader' = [loader EXCEPT !.loadCallbacks = <<>>,
                                        !.errorCallbacks = <<>>]

\* script.onload of the element loadDolphinScript added: dolphin.js has
\* run.  A build starts its runtime on window.Module, the object init
\* stored; the placeholder starts nothing.  The promise of
\* loadDolphinScript resolves and init does nothing on that.
ScriptLoad ==
    /\ env.scriptTag = "loading"
    /\ env.build # "missing"
    /\ env' = [env EXCEPT !.scriptTag = "loaded",
                          !.runtime = IF HasRuntime(env.build)
                                      THEN "starting" ELSE "none"]
    /\ UNCHANGED <<dolphinLoader, windowModule, promises, fsFiles, romResult,
                   backendCalls, flowVars, pageVars>>

\* script.onerror: loadDolphinScript rejects and the catch of init runs
ScriptError ==
    /\ env.scriptTag = "loading"
    /\ env' = [env EXCEPT !.scriptTag = "failed"]
    /\ notifyError([dolphinLoader EXCEPT !.isLoading = FALSE])
    /\ UNCHANGED <<windowModule, fsFiles, romResult, backendCalls, flowVars, pageVars>>

\* onRuntimeReady made ready whatever the module holds
onRuntimeReadyAlways(wasmDefined, hasCcall) ==
    notifyReady([dolphinLoader EXCEPT !.isReady = TRUE, !.isLoading = FALSE,
                                      !.dolphinInstance = wasmDefined])

\* onRuntimeReady(): an instance of DolphinWasm if the class is defined,
\* else the module if it has ccall, else the throw, caught at once
onRuntimeReady(wasmDefined, hasCcall) ==
    IF wasmDefined \/ hasCcall
    THEN notifyReady([dolphinLoader EXCEPT !.isReady = TRUE,
                                           !.isLoading = FALSE,
                                           !.dolphinInstance = wasmDefined])
    ELSE notifyError([dolphinLoader EXCEPT !.isLoading = FALSE])

\* moduleConfig.onRuntimeInitialized: the runtime started on the object of
\* init has finished its start, with its exports on that object
RuntimeInitialized ==
    /\ env.runtime = "starting"
    /\ env' = [env EXCEPT !.runtime = "initialized",
                          !.wasmDefined = DefinesWasm(env.build)]
    /\ windowModule' = IF ExportsFS(env.build) THEN "runtime" ELSE windowModule
    /\ onRuntimeReady(DefinesWasm(env.build), ExportsFS(env.build))
    /\ UNCHANGED <<fsFiles, romResult, backendCalls, flowVars, pageVars>>

\* moduleConfig.onAbort: the runtime aborts, while it starts or later
RuntimeAbort ==
    /\ env.runtime \in {"starting", "initialized"}
    /\ env' = [env EXCEPT !.runtime = "aborted"]
    /\ notifyError([dolphinLoader EXCEPT !.isLoading = FALSE])
    /\ UNCHANGED <<windowModule, fsFiles, romResult, backendCalls, flowVars, pageVars>>

\* the call a control method makes on a ready loader: the method of the
\* instance, else what the module offers, else none
MethodCalls(loader, fn, slot) ==
    IF loader.dolphinInstance
    THEN << Call("dolphinInstance", fn, slot) >>
         \o (IF fn = "saveState" /\ windowModule = "runtime"
             THEN << Call("FS", "syncfs", <<>>) >> ELSE <<>>)
    ELSE IF windowModule # "runtime" THEN <<>>
    ELSE IF fn = "pause" THEN << Call("module", "pauseMainLoop", <<>>) >>
    ELSE IF fn = "resume" THEN << Call("module", "resumeMainLoop", <<>>) >>
    ELSE IF fn = "stop" THEN << Call("module", "Core_Stop", <<>>) >>
    ELSE <<>>

\* a control method without its readiness test
MethodUnguarded(fn, slot) ==
    /\ Len(backendCalls) < MaxCalls
    /\ backendCalls' = backendCalls \o MethodCalls(dolphinLoader, fn, slot)
    /\ romResult' = [fn |-> fn, filename |-> <<>>, result |-> "done"]
    /\ UNCHANGED <<dolphinLoader, windowModule, fsFiles, promises, env,
                   flowVars, pageVars>>

\* pause(), resume(), stop(), saveState(slot), loadState(slot): each returns
\* at once unless isReady
Method(fn, slot) ==
    /\ Len(backendCalls) < MaxCalls
    /\ backendCalls' = IF dolphinLoader.isReady
                       THEN backendCalls \o MethodCalls(dolphinLoader, fn, slot)
                       ELSE backendCalls
    /\ romResult' = [fn |-> fn, filename |-> <<>>,
                     result |-> IF dolphinLoader.isReady THEN "done"
                                ELSE "not ready"]
    /\ UNCHANGED <<dolphinLoader, windowModule, fsFiles, promises, env,
                   flowVars, pageVars>>

Slots == {0, 1}
pause == Method("pause", <<>>)
resume == Method("resume", <<>>)
stop == Method("stop", <<>>)
saveState(slot) == Method("saveState", <<slot>>)
loadState(slot) == Method("loadState", <<slot>>)

\* --------------------------------------------------------- the emulator page

\* the names of the ROM files the user can select
RomFileNames == { <<"g.iso">>, <<"h.wbfs">> }

\* checkRetroArchStatus(): the 500 ms interval and the 30 s timer
checkRetroArchStatus(pg) ==
    /\ statusCheckInterval' = "set"
    /\ page' = [pg EXCEPT !.pollStarted = TRUE, !.statusTimeout = TRUE]

\* initEmulator skipping Dolphin
initEmulatorRetroArchOnly ==
    /\ ~page.loaded
    /\ emulatorType' = "retroarch"
    /\ checkRetroArchStatus([page EXCEPT !.loaded = TRUE])
    /\ UNCHANGED <<dolphinLoader, windowModule, promises, env>>
    /\ UNCHANGED <<emulatorReady, currentROM, romStatus, romLoads, fsFiles,
                   romResult, backendCalls, flowVars>>

\* initEmulator(), on DOMContentLoaded.  With DolphinLoader defined,
\* initDolphin: dolphinLoader = new DolphinLoader() and its init, whose
\* promise gets the then and the catch.
initEmulator ==
    /\ ~page.loaded
    /\ IF page.loaderDefined
       THEN /\ emulatorType' = "dolphin"
            /\ InitOn(NewLoader)
            /\ page' = [page EXCEPT !.loaded = TRUE, !.hasLoader = TRUE,
                                    !.initPromise = Len(promises) + 1]
            /\ UNCHANGED statusCheckInterval
       ELSE /\ emulatorType' = "retroarch"
            /\ checkRetroArchStatus([page EXCEPT !.loaded = TRUE])
            /\ UNCHANGED <<dolphinLoader, windowModule, promises, env>>
    /\ UNCHANGED <<emulatorReady, currentROM, romStatus, romLoads, fsFiles,
                   romResult, backendCalls, flowVars>>

\* initDolphin: .then(() => ...), once the promise of init is resolved
InitThen ==
    /\ page.initPromise \in DOMAIN promises
    /\ promises[page.initPromise] = "resolved"
    /\ ~page.handled
    /\ page' = [page EXCEPT !.handled = TRUE]
    /\ emulatorReady' = TRUE
    /\ romStatus' = showStatus("success",
           Text("Dolphin emulator ready! Load a ROM to start.", "", NoName))
    /\ UNCHANGED <<emulatorType, statusCheckInterval, currentROM, romLoads>>
    /\ UNCHANGED <<dolphinLoader, windowModule, fsFiles, romResult, promises,
                   env, backendCalls, flowVars>>

\* initDolphin: .catch(error => ...), once the promise of init is rejected
InitCatch ==
    /\ page.initPromise \in DOMAIN promises
    /\ promises[page.initPromise] = "rejected"
    /\ ~page.handled
    /\ romStatus' = showStatus("error",
           Text("Dolphin WASM not available. Using RetroArch fallback...",
                "", NoName))
    /\ emulatorType' = "retroarch"
    /\ checkRetroArchStatus([page EXCEPT !.handled = TRUE])
    /\ UNCHANGED <<emulatorReady, currentROM, romLoads>>
    /\ UNCHANGED <<dolphinLoader, windowModule, fsFiles, romResult, promises,
                   env, backendCalls, flowVars>>

\* typeof Module !== 'undefined' && Module.canvas: true of the object init
\* stores, which carries the canvas, and of a runtime
ModuleLooksReady == windowModule # "undefined"

\* a tick of the interval of checkRetroArchStatus
StatusPoll ==
    /\ statusCheckInterval = "set"
    /\ IF ModuleLooksReady
       THEN /\ emulatorReady' = TRUE
            /\ statusCheckInterval' = "null"
       ELSE UNCHANGED <<emulatorReady, statusCheckInterval>>
    /\ UNCHANGED <<emulatorType, currentROM, romStatus, romLoads, page>>
    /\ UNCHANGED <<dolphinLoader, windowModule, fsFiles, romResult, promises,
                   env, backendCalls, flowVars>>

\* the 30 s timer of checkRetroArchStatus
StatusTimeout ==
    /\ page.statusTimeout
    /\ page' = [page EXCEPT !.statusTimeout = FALSE]
    /\ statusCheckInterval' = "null"
    /\ UNCHANGED <<emulatorReady, emulatorType, currentROM, romStatus,
                   romLoads>>
    /\ UNCHANGED <<dolphinLoader, windowModule, fsFiles, romResult, promises,
                   env, backendCalls, flowVars>>

\* libretro.js has brought up the RetroArch runtime: window.Module is its
\* Module, with canvas and FS
RetroArchReady ==
    /\ page.retroArch = "loading"
    /\ page' = [page EXCEPT !.retroArch = "ready"]
    /\ windowModule' = "runtime"
    /\ UNCHANGED <<emulatorReady, emulatorType, statusCheckInterval,
                   currentROM, romStatus, romLoads>>
    /\ UNCHANGED <<dolphinLoader, fsFiles, romResult, promises, env,
                   backendCalls, flowVars>>

\* handleROMLoad(event) up to reader.readAsArrayBuffer(file); name <<>> is
\* a change event without a file
handleROMLoad(name) ==
    /\ page.loaded
    /\ IF name = NoName
       THEN UNCHANGED <<currentROM, romStatus, romLoads, page>>
       ELSE /\ page.nRom < MaxRomLoads
            /\ currentROM' = name
            /\ romStatus' = showStatus("info", Text("Loading ...", "", name))
            /\ romLoads' = romLoads \cup
                  {[id |-> page.nRom + 1, name |-> name, phase |-> "reading"]}
            /\ page' = [page EXCEPT !.nRom = @ + 1]
    /\ UNCHANGED <<emulatorReady, emulatorType, statusCheckInterval>>
    /\ UNCHANGED <<dolphinLoader, windowModule, fsFiles, romResult, promises,
                   env, backendCalls, flowVars>>

\* loadROMIntoDolphin(filename, data): nothing unless the page has a loader
\* and it is ready, else bootROM, whose result is only logged
loadROMIntoDolphin(filename, booted) ==
    IF page.hasLoader /\ dolphinLoader.isReady
    THEN /\ romResult' = [fn |-> "bootROM", filename |-> filename,
                          result |->
                             BootROMResult(dolphinLoader, filename, booted)]
         /\ fsFiles' = fsFiles \cup
                          BootROMWrites(dolphinLoader, filename, booted)
         /\ backendCalls' = backendCalls \o
                          BootROMCalls(dolphinLoader, filename, booted)
    ELSE /\ romResult' = [fn |-> "loadROMIntoDolphin", filename |-> filename,
                          result |-> "not ready"]
         /\ UNCHANGED <<fsFiles, backendCalls>>

\* the routing of handleROMLoad: by emulatorType, to loadROMIntoDolphin or
\* to loadROMIntoRetroArch, then the success status whatever they did
RouteROM(filename, booted) ==
    /\ IF emulatorType = "dolphin"
       THEN loadROMIntoDolphin(filename, booted)
       ELSE /\ romResult' = [fn |-> "loadROMIntoRetroArch",
                             filename |-> filename,
                             result |-> RetroArchLoadResult(filename)]
            /\ fsFiles' = fsFiles \cup RetroArchLoadWrites(filename)
            /\ UNCHANGED backendCalls
    /\ romStatus' = showStatus("success",
           Text("loaded! Use keyboard/gamepad to play.", "", filename))

\* reader.onload of handleROMLoad
RomReaderLoad(r, booted) ==
    /\ r \in romLoads
    /\ r.phase = "reading"
    /\ IF emulatorReady
       THEN /\ RouteROM(r.name, booted)
            /\ romLoads' = romLoads \ {r}
       ELSE /\ romStatus' = showStatus("info",
                   Text("ready. The emulator is still loading - please wait...",
                        emulatorType, r.name))
            /\ romLoads' = (romLoads \ {r}) \cup {[r EXCEPT !.phase = "waiting"]}
            /\ UNCHANGED <<romResult, fsFiles, backendCalls>>
    /\ UNCHANGED <<emulatorReady, emulatorType, statusCheckInterval,
                   currentROM, page>>
    /\ UNCHANGED <<dolphinLoader, windowModule, promises, env, flowVars>>

\* reader.onerror of handleROMLoad
RomReaderError(r) ==
    /\ r \in romLoads
    /\ r.phase = "reading"
    /\ romStatus' = showStatus("error", Text("Error loading ROM file.", "", NoName))
    /\ romLoads' = romLoads \ {r}
    /\ UNCHANGED <<emulatorReady, emulatorType, statusCheckInterval,
                   currentROM, page>>
    /\ UNCHANGED <<dolphinLoader, windowModule, fsFiles, romResult, promises,
                   env, backendCalls, flowVars>>

\* a tick of the waitForEmulator interval that leaves the interval set
RomPollKeepsInterval(r, booted) ==
    /\ r \in romLoads
    /\ r.phase = "waiting"
    /\ IF emulatorReady
       THEN /\ RouteROM(r.name, booted)
            /\ page' = [page EXCEPT !.pollLoads = @ \cup {r.id}]
            /\ UNCHANGED romLoads
       ELSE UNCHANGED <<romStatus, romLoads, romResult, fsFiles, backendCalls,
                        page>>
    /\ UNCHANGED <<emulatorReady, emulatorType, statusCheckInterval,
                   currentROM>>
    /\ UNCHANGED <<dolphinLoader, windowModule, promises, env, flowVars>>

\* a tick of the waitForEmulator interval (1 s)
RomPoll(r, booted) ==
    /\ r \in romLoads
    /\ r.phase = "waiting"
    /\ IF emulatorReady
       THEN /\ RouteROM(r.name, booted)
            /\ romLoads' = romLoads \ {r}
            /\ page' = [page EXCEPT !.pollLoads = @ \cup {r.id}]
       ELSE UNCHANGED <<romStatus, romLoads, romResult, fsFiles, backendCalls,
                        page>>
    /\ UNCHANGED <<emulatorReady, emulatorType, statusCheckInterval,
                   currentROM>>
    /\ UNCHANGED <<dolphinLoader, windowModule, promises, env, flowVars>>

\* the 20 s timer of handleROMLoad: clearInterval(waitForEmulator)
RomPollTimeout(r) ==
    /\ r \in romLoads
    /\ r.phase = "waiting"
    /\ romLoads' = romLoads \ {r}
    /\ page' = [page EXCEPT !.expired = @ \cup {r.id}]
    /\ UNCHANGED <<emulatorReady, emulatorType, statusCheckInterval,
                   currentROM, romStatus>>
    /\ UNCHANGED <<dolphinLoader, windowModule, fsFiles, romResult, promises,
                   env, backendCalls, flowVars>>

\* togglePause(), on a click on #pause-btn.  In Dolphin mode with a loader
\* the label decides between dolphinLoader.pause() and resume() and is
\* flipped whatever the call did; otherwise Module.pauseMainLoop /
\* resumeMainLoop if the module has them, else nothing.
togglePause ==
    /\ page.loaded
    /\ page.nToggle < MaxToggles
    /\ LET pausing == page.pauseLabel = "Pause"
           flipped == IF pausing THEN "Resume" ELSE "Pause"
           fn == IF pausing THEN "pause" ELSE "resume"
           calls == IF emulatorType = "dolphin" /\ page.hasLoader
                    THEN IF dolphinLoader.isReady
                         THEN MethodCalls(dolphinLoader, fn, <<>>)
                         ELSE <<>>
                    ELSE IF windowModule = "runtime"
                    THEN << Call("module", IF pausing THEN "pauseMainLoop"
                                           ELSE "resumeMainLoop", <<>>) >>
                    ELSE <<>>
       IN /\ backendCalls' = backendCalls \o calls
          /\ page' = [page EXCEPT
                !.nToggle = @ + 1,
                !.paused = IF calls = <<>> THEN @ ELSE pausing,
                !.pauseLabel =
                   IF (emulatorType = "dolphin" /\ page.hasLoader)
                      \/ windowModule = "runtime"
                   THEN flipped ELSE @]
    /\ UNCHANGED <<emulatorReady, emulatorType, statusCheckInterval,
                   currentROM, romStatus, romLoads>>
    /\ UNCHANGED <<dolphinLoader, windowModule, fsFiles, romResult, promises,
                   env, flowVars>>

\* ------------------------------------------------------------ the disclaimer

\* cookie.startsWith(prefix), on the characters
StartsWith(chars, prefix) ==
    /\ Len(chars) >= Len(prefix)
    /\ SubSeq(chars, 1, Len(prefix)) = prefix

\* document.cookie.split('; '): the cookies of the pages as name and value.
\* The values of the two install cookies are encodeURIComponent of a JSON
\* object, which starts with %7B.
DocumentCookies ==
    (IF cookie.lastWadDolInstall = NoCookie THEN {}
     ELSE {[name |-> "lastWadDolInstall", value |-> <<"%", "7", "B">>]})
    \cup (IF cookie.lastBootMiiRestore = NoCookie THEN {}
          ELSE {[name |-> "lastBootMiiRestore", value |-> <<"%", "7", "B">>]})
    \cup (IF disclaimerCookie = NoValue THEN {}
          ELSE {[name |-> "wiiDisclaimerAccepted", value |-> disclaimerCookie]})

\* the disclaimer taken as never accepted
hasAcceptedDisclaimerNever == FALSE

\* hasAcceptedDisclaimer(): some cookie starts with
\* 'wiiDisclaimerAccepted=true'
hasAcceptedDisclaimer ==
    \E c \in DocumentCookies :
        c.name = "wiiDisclaimerAccepted" /\ StartsWith(c.value, TrueValue)

\* A page load: a new document, its modal not displayed and no timer left
\* from the page before, then initDisclaimer on DOMContentLoaded.
initDisclaimer ==
    /\ disclaimer.nLoads < MaxPageLoads
    /\ disclaimer' = [disclaimer EXCEPT
          !.loaded = TRUE,
          !.display = IF hasAcceptedDisclaimer THEN "none" ELSE "flex",
          !.opacity = "",
          !.hideTimers = 0,
          !.nLoads = @ + 1]
    /\ UNCHANGED <<disclaimerCookie, wadVars, bmVars, modal, ops, cookie,
                   nSelect, probe>>
    /\ UNCHANGED <<dolphinLoader, windowModule, fsFiles, romResult, promises,
                   env, backendCalls, pageVars>>

\* acceptDisclaimer(), on a click on the accept button (part_001) or on the
\* modal (part_002): the cookie, then hideDisclaimerModal
acceptDisclaimer ==
    /\ disclaimer.loaded
    /\ disclaimer.display = "flex"
    /\ disclaimer.nClicks < MaxAccepts
    /\ disclaimerCookie' = TrueValue
    /\ disclaimer' =
          IF disclaimer.script = "part_001"
          THEN [disclaimer EXCEPT !.display = "none", !.nClicks = @ + 1]
          ELSE [disclaimer EXCEPT !.opacity = "0", !.hideTimers = @ + 1,
                                  !.nClicks = @ + 1]
    /\ UNCHANGED <<wadVars, bmVars, modal, ops, cookie, nSelect, probe>>
    /\ UNCHANGED <<dolphinLoader, windowModule, fsFiles, romResult, promises,
                   env, backendCalls, pageVars>>

\* the timer of hideDisclaimerModal (part_002), 500 ms after the click
HideDisclaimerTimeout ==
    /\ disclaimer.hideTimers > 0
    /\ disclaimer' = [disclaimer EXCEPT !.display = "none",
                                        !.hideTimers = @ - 1]
    /\ UNCHANGED <<disclaimerCookie, wadVars, bmVars, modal, ops, cookie,
                   nSelect, probe>>
    /\ UNCHANGED <<dolphinLoader, windowModule, fsFiles, romResult, promises,
                   env, backendCalls, pageVars>>

\* the cookie is gone: max-age (one year) has passed, or the user has
\* cleared the cookies
DisclaimerCookieExpires ==
    /\ disclaimerCookie # NoValue
    /\ disclaimerCookie' = NoValue
    /\ UNCHANGED <<disclaimer, wadVars, bmVars, modal, ops, cookie, nSelect,
                   probe>>
    /\ UNCHANGED <<dolphinLoader, windowModule, fsFiles, romResult, promises,
                   env, backendCalls, pageVars>>

\* ------------------------------------------------ the validators on their own

\* sizes on both sides of the two thresholds of validateBackupSize
ProbeSizes ==
    { 0, 10, 629145600 } \cup
    { BOOTMII_STANDARD_SIZE + d * SIZE_TOLERANCE + e :
        d \in {-11, -10, -2, -1, 0, 1, 2, 10, 11}, e \in {-1, 0, 1} }

ProbeLengths == {0, 1, 2, 3, 4, 5, 6, 7, 8, 10, 63, 64, 65, 255, 256, 257,
                 1020, 1022, 1024, 1026, 4096, BOOTMII_STANDARD_SIZE}

ProbeContents ==
    { <<>>, (0 :> 1), (3 :> 1), (4 :> 1), (31 :> 1), (1023 :> 1), (1024 :> 1),
      (0 :> 73 @@ 1 :> 115), (0 :> 105 @@ 1 :> 98) }

ProbeBuffers ==
    { [byteLength |-> n, bytes |-> c] : n \in ProbeLengths, c \in ProbeContents }
      \ { b \in [byteLength : ProbeLengths, bytes : ProbeContents] :
            \E o \in DOMAIN b.bytes : o >= b.byteLength }

ProbeNames ==
    { <<"g", ".", "w", "a", "d">>, <<"G", ".", "W", "a", "D">>,
      <<"b", ".", "d", "o", "l">>, <<"b", ".", "D", "O", "L">>,
      <<"r", ".", "t", "x", "t">>, <<"w", "a", "d">>,
      <<"a", ".", "w", "a", "d", ".", "t", "x", "t">> }

ProbeCalls ==
    { ProbeCall("validateBackupSize", n, <<>>, NoBuffer) : n \in ProbeSizes }
    \cup { ProbeCall("performBackupValidation", 0, <<>>, b) : b \in ProbeBuffers }
    \cup { ProbeCall("detectFileType", 0, n, b) :
             n \in ProbeNames, b \in {x \in ProbeBuffers : x.byteLength <= 257} }

ProbeValidateBackupSize ==
    /\ probe.fn = "validateBackupSize"
    /\ ~probe.done
    /\ LET v == validateBackupSize(probe.size)
       IN probe' = [probe EXCEPT !.done = TRUE,
                                 !.out = [NoOut EXCEPT !.isValid = v.isValid,
                                                       !.isWarning = v.isWarning,
                                                       !.message = v.message]]
    /\ UNCHANGED <<wadVars, bmVars, modal, ops, cookie, nSelect>>
    /\ UNCHANGED emuVars

ProbePerformBackupValidation ==
    /\ probe.fn = "performBackupValidation"
    /\ ~probe.done
    /\ LET v == performBackupValidation(probe.buf)
       IN probe' = [probe EXCEPT !.done = TRUE,
                                 !.out = [NoOut EXCEPT !.isValid = v.isValid,
                                                       !.message = v.message,
                                                       !.warnings = v.warnings,
                                                       !.threw = v.threw]]
    /\ UNCHANGED <<wadVars, bmVars, modal, ops, cookie, nSelect>>
    /\ UNCHANGED emuVars

ProbeDetectFileType ==
    /\ probe.fn = "detectFileType"
    /\ ~probe.done
    /\ LET t == detectFileType(probe.name, probe.buf)
       IN probe' = [probe EXCEPT !.done = TRUE,
                                 !.out = [NoOut EXCEPT !.isValid = (t # NoType),
                                                       !.fileType = t]]
    /\ UNCHANGED <<wadVars, bmVars, modal, ops, cookie, nSelect>>
    /\ UNCHANGED emuVars

\* ------------------------------------------------------------ specification

Next ==
    \/ WadChangeNoFile
    \/ \E f \in FlowWadIds : WadChange(f)
    \/ \E r \in wadReaders : WadReaderLoad(r)
    \/ \E r \in wadReaders : WadReaderError(r)
    \/ InstallClick
    \/ BmChangeNoFile
    \/ \E f \in FlowBackupIds : BmChange(f)
    \/ \E r \in bmReaders : BmReaderLoad(r)
    \/ \E r \in bmReaders : BmReaderError(r)
    \/ RestoreClick
    \/ ConfirmClick
    \/ CancelClick
    \/ \E i \in 1..Len(ops) : InstallTick(i)
    \/ \E i \in 1..Len(ops) : RestoreTick(i)
    \/ \E i \in 1..Len(ops) : HideTimer(i)

Spec == Init /\ [][Next]_vars

\* Each interval timer that is set keeps firing.
FairSpec ==
    /\ Spec
    /\ \A i \in 1..MaxOps : WF_vars(InstallTick(i)) /\ WF_vars(RestoreTick(i))

\* Reading on the WAD/DOL page alone, every file of the table.
LoadNext ==
    \/ WadChangeNoFile
    \/ \E f \in WadIds : WadChange(f)
    \/ \E r \in wadReaders : WadReaderLoad(r)
    \/ \E r \in wadReaders : WadReaderError(r)
    \/ InstallClick
    \/ CancelClick

LoadSpec == Init /\ [][LoadNext]_vars

\* Reading on the BootMii page alone, every file of the table.
BmLoadNext ==
    \/ BmChangeNoFile
    \/ \E f \in BackupIds : BmChange(f)
    \/ \E r \in bmReaders : BmReaderLoad(r)
    \/ \E r \in bmReaders : BmReaderError(r)
    \/ RestoreClick
    \/ CancelClick

BmLoadSpec == Init /\ [][BmLoadNext]_vars

\* Reading on both pages with the progress events of the readers.
ReadNext ==
    \/ \E f \in WadIds : WadChange(f)
    \/ \E r \in wadReaders, c \in BOOLEAN :
          \E l \in LoadedSteps(WadFiles[r.file].size) : WadReaderProgress(r, c, l)
    \/ \E r \in wadReaders : WadReaderLoad(r)
    \/ \E r \in wadReaders : WadReaderError(r)
    \/ \E f \in BackupIds : BmChange(f)
    \/ \E r \in bmReaders, c \in BOOLEAN :
          \E l \in LoadedSteps(BackupFiles[r.file].size) : BmReaderProgress(r, c, l)
    \/ \E r \in bmReaders : BmReaderLoad(r)
    \/ \E r \in bmReaders : BmReaderError(r)

ReadSpec == Init /\ [][ReadNext]_vars

\* The states the loader and window.Module can be in when a ROM is loaded:
\* no runtime at all; a RetroArch runtime and a loader never initialized; a
\* loader made ready by onRuntimeReady, with a DolphinWasm instance (whether
\* or not the runtime exposes FS) or with the ccall interface of the runtime.
ReadyLoaders ==
    { [NewLoader EXCEPT !.module = "Module", !.isReady = TRUE,
                        !.dolphinInstance = i] : i \in BOOLEAN }

VfsInit ==
    /\ FlowInit
    /\ NoDisclaimer
    /\ probe = IdleProbe
    /\ fsFiles = {}
    /\ romResult = NoResult
    /\ promises = <<>>
    /\ env = NoScript("stub")
    /\ backendCalls = <<>>
    /\ PageInit
    /\ page = NewPage(FALSE, "absent")
    /\ \/ dolphinLoader = NewLoader /\ windowModule \in {"undefined", "runtime"}
       \/ /\ dolphinLoader \in ReadyLoaders
          /\ windowModule \in {"config", "runtime"}
          /\ ~dolphinLoader.dolphinInstance => windowModule = "runtime"

VfsNext ==
    \/ \E n \in RomNames, booted \in BOOLEAN : bootROM(n, booted)
    \/ \E n \in RomNames : loadROMIntoRetroArch(n)

VfsSpec == VfsInit /\ [][VfsNext]_vars

\* dolphin.js included by a script element of the document, before any
\* init: the element is there, and what the build defines; its runtime has
\* started on its own Module, not on the object init stores later
PreIncluded(build) ==
    [build |-> build,
     scriptTag |-> IF build = "missing" THEN "failed" ELSE "loaded",
     runtime |-> IF HasRuntime(build) THEN "detached" ELSE "none",
     wasmDefined |-> DefinesWasm(build)]

\* A new loader on a page where dolphin.js is loaded by init only, or was
\* included by the document.
LoaderInit ==
    /\ FlowInit
    /\ NoDisclaimer
    /\ probe = IdleProbe
    /\ dolphinLoader = NewLoader
    /\ fsFiles = {}
    /\ romResult = NoResult
    /\ promises = <<>>
    /\ backendCalls = <<>>
    /\ PageInit
    /\ page = NewPage(FALSE, "absent")
    /\ \/ \E build \in DolphinBuilds :
             env = NoScript(build) /\ windowModule = "undefined"
       \/ \E build \in {"missing", "stub", "embind", "ccall"} :
             /\ env = PreIncluded(build)
             /\ windowModule = IF HasRuntime(build) THEN "runtime"
                                ELSE "undefined"

\* the life of the loader: init and the events of the script and the runtime
LoaderNext ==
    \/ init
    \/ ScriptLoad
    \/ ScriptError
    \/ RuntimeInitialized
    \/ RuntimeAbort

LoaderSpec == LoaderInit /\ [][LoaderNext]_vars

\* A script element fires load or error, and a runtime that has started
\* finishes its start or aborts.
LoaderFairSpec ==
    /\ LoaderSpec
    /\ WF_vars(ScriptLoad \/ ScriptError)
    /\ WF_vars(RuntimeInitialized \/ RuntimeAbort)

\* the loader in use: its life, bootROM and the control methods
ControlNext ==
    \/ LoaderNext
    \/ \E n \in RomNames, booted \in BOOLEAN : bootROM(n, booted)
    \/ pause
    \/ resume
    \/ stop
    \/ \E slot \in Slots : saveState(slot)
    \/ \E slot \in Slots : loadState(slot)

ControlSpec == LoaderInit /\ [][ControlNext]_vars

\* The emulator page: with or without dolphin-loader.js, whatever dolphin.js
\* is, with or without the RetroArch runtime of libretro.js.
EmuPageInit ==
    /\ FlowInit
    /\ NoDisclaimer
    /\ probe = IdleProbe
    /\ dolphinLoader = NewLoader
    /\ windowModule = "undefined"
    /\ fsFiles = {}
    /\ romResult = NoResult
    /\ promises = <<>>
    /\ backendCalls = <<>>
    /\ PageInit
    /\ \E build \in DolphinBuilds : env = NoScript(build)
    /\ \E loaderDefined \in BOOLEAN, retroArch \in {"absent", "loading"} :
          page = NewPage(loaderDefined, retroArch)

EmuNext ==
    \/ initEmulator
    \/ InitThen
    \/ InitCatch
    \/ StatusPoll
    \/ StatusTimeout
    \/ RetroArchReady
    \/ ScriptLoad
    \/ ScriptError
    \/ RuntimeInitialized
    \/ RuntimeAbort
    \/ \E name \in RomFileNames \cup {NoName} : handleROMLoad(name)
    \/ \E r \in romLoads, booted \in BOOLEAN : RomReaderLoad(r, booted)
    \/ \E r \in romLoads : RomReaderError(r)
    \/ \E r \in romLoads, booted \in BOOLEAN : RomPoll(r, booted)
    \/ \E r \in romLoads : RomPollTimeout(r)

EmuSpec == EmuPageInit /\ [][EmuNext]_vars

\* the emulator page with its pause button, no ROM selected
PauseNext ==
    \/ initEmulator
    \/ InitThen
    \/ InitCatch
    \/ StatusPoll
    \/ StatusTimeout
    \/ RetroArchReady
    \/ ScriptLoad
    \/ ScriptError
    \/ RuntimeInitialized
    \/ RuntimeAbort
    \/ togglePause

PauseSpec == EmuPageInit /\ [][PauseNext]_vars

\* DOMContentLoaded fires; a script element fires load or error; a runtime
\* that has started finishes its start or aborts; the reactions of a
\* settled promise run; intervals tick.
EmuFairSpec ==
    /\ EmuSpec
    /\ WF_vars(initEmulator)
    /\ WF_vars(ScriptLoad \/ ScriptError)
    /\ WF_vars(RuntimeInitialized \/ RuntimeAbort)
    /\ WF_vars(InitThen)
    /\ WF_vars(InitCatch)
    /\ WF_vars(StatusPoll)

\* The disclaimer over several visits of the page, with either variant of
\* its script.
DisclaimerInit ==
    /\ FlowInit
    /\ probe = IdleProbe
    /\ EmuInit
    /\ PageInit
    /\ page = NewPage(FALSE, "absent")
    /\ \E script \in {"part_001", "part_002"} :
          disclaimer = NewDisclaimer(script)
    /\ disclaimerCookie = NoValue

DisclaimerNext ==
    \/ initDisclaimer
    \/ acceptDisclaimer
    \/ HideDisclaimerTimeout
    \/ DisclaimerCookieExpires

DisclaimerSpec == DisclaimerInit /\ [][DisclaimerNext]_vars

\* The validators called on their own on each input of ProbeCalls.
ValidateInit ==
    /\ FlowInit
    /\ NoDisclaimer
    /\ probe \in ProbeCalls
    /\ EmuInit
    /\ PageInit
    /\ page = NewPage(FALSE, "absent")

ValidateNext ==
    \/ ProbeValidateBackupSize
    \/ ProbePerformBackupValidation
    \/ ProbeDetectFileType

ValidateSpec == ValidateInit /\ [][ValidateNext]_vars


\* ------------------------------------------------------------------ claims

Running(i) == i \in DOMAIN ops /\ ops[i].interval
Succeeded(i) == i \in DOMAIN ops /\ ~ops[i].interval /\ ops[i].progress = 100

InstalledText(op) ==
    Text("installed successfully to virtual NAND!", op.fileType, NameOfWad(op.file))
RestoredText(op) ==
    Text("BootMii backup restored successfully!", "", NameOfBackup(op.file))
InvalidTypeText ==
    Text("Invalid file type. Please select a .wad or .dol file.", "", NoName)

\* C1: an operation is started only by the step that closes the shown modal
\* (the confirm click), and it is the operation the modal was opened for; an
\* install or restore click starts no operation.
C1_ConfirmGate ==
    [][ /\ (Len(ops') > Len(ops) =>
              /\ modal.shown
              /\ ~modal'.shown
              /\ ops' = Append(ops, ops'[Len(ops')])
              /\ ops'[Len(ops')].kind = modal.onConfirm)
        /\ (InstallClick \/ RestoreClick => ops' = ops) ]_vars

C1_Witness ==
    /\ \E i \in DOMAIN ops : ops[i].kind = "install"
    /\ \E i \in DOMAIN ops : ops[i].kind = "restore"

\* C2: a cancel click hides the modal and changes nothing else (no variable
\* of either page, no operation, no cookie); while the modal is hidden no
\* operation starts, and the modal is shown again only by an install or
\* restore click, which replaces the callback.
C2_CancelOnlyHides ==
    [][ /\ (CancelClick =>
              /\ ~modal'.shown
              /\ UNCHANGED <<wadVars, bmVars, ops, cookie>>)
        /\ (~modal.shown => Len(ops') = Len(ops))
        /\ (~modal.shown /\ modal'.shown => InstallClick \/ RestoreClick) ]_vars

C2_Witness ==
    /\ ~modal.shown
    /\ modal.onConfirm = "install"
    /\ ops = <<>>
    /\ currentFile # 0

\* C3: at most one install and at most one restore is running at any time.
C3_SingleRunning ==
    \A i, j \in DOMAIN ops :
        (ops[i].interval /\ ops[j].interval /\ ops[i].kind = ops[j].kind) => i = j

\* C4: the progress of an operation starts at 0, changes only by its step
\* (10 for an install, 5 for a restore) while its timer is set, is shown on
\* the bar of its page, never passes 100, and the operation ends, with the
\* success status, exactly in the step that takes it to 100; a success
\* status of an operation appears in no other step.
C4_ProgressMonotone ==
    [][ /\ \A i \in DOMAIN ops :
              /\ ops'[i].progress \in 0..100
              /\ (ops'[i].progress # ops[i].progress =>
                    /\ ops[i].interval
                    /\ ops'[i].progress =
                          ops[i].progress + (IF ops[i].kind = "install" THEN 10 ELSE 5)
                    /\ IF ops[i].kind = "install"
                       THEN wadProgress'.fill = ops'[i].progress
                       ELSE bmProgress'.fill = ops'[i].progress)
              /\ ((ops[i].interval /\ ~ops'[i].interval)
                    <=> (ops[i].progress < 100 /\ ops'[i].progress = 100))
              /\ (ops[i].interval /\ ~ops'[i].interval =>
                    IF ops[i].kind = "install"
                    THEN wadStatus' = showStatus("success", InstalledText(ops[i]))
                    ELSE bmStatus' = showStatus("success", RestoredText(ops[i])))
        /\ (Len(ops') > Len(ops) => ops'[Len(ops')].progress = 0)
        /\ (wadStatus' # wadStatus /\ wadStatus'.shown
              /\ wadStatus'.text.msg = "installed successfully to virtual NAND!"
              => \E i \in DOMAIN ops : ops[i].kind = "install"
                                       /\ ops[i].progress < 100
                                       /\ ops'[i].progress = 100)
        /\ (bmStatus' # bmStatus /\ bmStatus'.shown
              /\ bmStatus'.text.msg = "BootMii backup restored successfully!"
              => \E i \in DOMAIN ops : ops[i].kind = "restore"
                                       /\ ops[i].progress < 100
                                       /\ ops'[i].progress = 100) ]_vars

C4_Witness ==
    /\ \E i \in DOMAIN ops : ops[i].kind = "install" /\ Succeeded(i)
    /\ \E i \in DOMAIN ops : ops[i].kind = "restore" /\ Succeeded(i)

\* C5: once an operation has reached 100 its timer is cleared, and its
\* progress never changes again.
C5_TerminalIsLast ==
    [][ \A i \in DOMAIN ops :
           ops[i].progress >= 100 =>
              /\ ~ops[i].interval
              /\ ~ops'[i].interval
              /\ ops'[i].progress = ops[i].progress ]_vars

C5_Witness ==
    /\ Len(ops) = 2
    /\ Succeeded(1)
    /\ ~ops[1].hideTimer
    /\ ops[2].interval
    /\ ops[2].progress > 0

\* C6: every running operation eventually succeeds, whatever the user does
\* meanwhile.
C6_RunsToCompletion ==
    \A i \in 1..MaxOps : Running(i) ~> Succeeded(i)

C6_Witness ==
    /\ modal.shown
    /\ nSelect = MaxSelect
    /\ \E i \in DOMAIN ops : ops[i].interval /\ ops[i].progress > 0

\* C7: once the current file has been read and rejected (it fails
\* validation, no read is pending and the file type left by the last load is
\* null), no install operation starts.
C7_InvalidNeverInstalled ==
    [][ ( /\ currentFile # 0
          /\ WadTypeOf[currentFile] = NoType
          /\ currentFileType = NoType
          /\ wadReaders = {} )
        => ~( /\ Len(ops') > Len(ops)
              /\ ops'[Len(ops')].kind = "install" ) ]_vars

\* C8: no restore operation is started with a backup that validation rejects.
C8_RejectedNeverRestored ==
    \A i \in DOMAIN ops :
        ops[i].kind = "restore" =>
            /\ validateBackupSize(BackupFiles[ops[i].file].size).isValid
            /\ BackupValidationOf[ops[i].file].isValid

\* C9: a verdict of validateBackupSize that rejects carries a message and no
\* warning flag, one that accepts without a warning carries no message; a
\* verdict of performBackupValidation that accepts carries no message, one
\* that rejects carries a message and no warnings; a verdict with a warning
\* accepts.
C9_VerdictInvariant ==
    probe.done =>
        /\ (probe.fn = "validateBackupSize" =>
              /\ (~probe.out.isValid =>
                    ~probe.out.isWarning /\ probe.out.message # "")
              /\ (probe.out.isValid /\ ~probe.out.isWarning =>
                    probe.out.message = "")
              /\ (probe.out.isWarning => probe.out.isValid))
        /\ (probe.fn = "performBackupValidation" /\ ~probe.out.threw =>
              /\ (probe.out.isValid => probe.out.message = "")
              /\ (~probe.out.isValid =>
                    probe.out.warnings = <<>> /\ probe.out.message # "")
              /\ (probe.out.warnings # <<>> => probe.out.isValid))

C9_Witness ==
    /\ probe.done
    /\ probe.fn = "validateBackupSize"
    /\ probe.out.isValid
    /\ probe.out.isWarning

\* the file's name ends in .wad (.dol), in any case
HasExtension(f, ext) ==
    LET n == WadFiles[f].name
    IN /\ Len(n) >= 4
       /\ n[Len(n) - 3] = "."
       /\ ToLowerCase(SubSeq(n, Len(n) - 2, Len(n))) = ext

BelowMinSize(f) ==
    \/ HasExtension(f, <<"w", "a", "d">>) /\ WadFiles[f].size < 64
    \/ HasExtension(f, <<"d", "o", "l">>) /\ WadFiles[f].size < 256

\* C10: when the read of a .wad below 64 bytes or of a .dol below 0x100
\* bytes completes, the handler shows the one error status, leaves the file
\* type null and does nothing handleWadFile or handleDolFile would do (the
\* details, the info box and the install button stay as they were).
C10_ShortRejected ==
    [][ \A r \in wadReaders :
           WadReaderLoad(r) /\ BelowMinSize(r.file) =>
              /\ wadStatus' = showStatus("error", InvalidTypeText)
              /\ currentFileType' = NoType
              /\ UNCHANGED <<wadInfo, wadDetails, installButton>> ]_vars

C10_Witness ==
    /\ nSelect = 1
    /\ wadReaders = {}
    /\ WadFiles[currentFile].size = 0
    /\ BelowMinSize(currentFile)
    /\ wadStatus = showStatus("error", InvalidTypeText)

\* C11: validateBackupSize decides by delta = |size - 512 MiB| alone: above
\* 10 MiB it rejects with an error message and no warning flag; above 1 MiB
\* and up to 10 MiB it accepts with the warning flag and a message; up to
\* 1 MiB (1 MiB itself included) it accepts with no flag and no message.
C11_SizePartition ==
    (probe.done /\ probe.fn = "validateBackupSize") =>
        LET d == probe.size - 536870912
            delta == IF d < 0 THEN -d ELSE d
        IN /\ (delta > 10485760 =>
                 /\ ~probe.out.isValid
                 /\ ~probe.out.isWarning
                 /\ probe.out.message # "")
           /\ (delta > 1048576 /\ delta <= 10485760 =>
                 /\ probe.out.isValid
                 /\ probe.out.isWarning
                 /\ probe.out.message # "")
           /\ (delta <= 1048576 =>
                 /\ probe.out.isValid
                 /\ ~probe.out.isWarning
                 /\ probe.out.message = "")

C11_Witness ==
    /\ probe.done
    /\ probe.fn = "validateBackupSize"
    /\ probe.size = 536870912 + 1048576
    /\ probe.out.isValid
    /\ ~probe.out.isWarning

\* the size warning of the current backup, "" when its size carries none
SizeWarningOf(f) ==
    LET v == validateBackupSize(BackupFiles[f].size)
    IN IF v.isValid /\ v.isWarning THEN v.message ELSE ""

\* C12: once a backup accepted with a size warning has been read and
\* validated (its details are shown, the restore button is displayed and no
\* read is pending), the size warning is still displayed, in the status or
\* among the warnings of the details.
C12_SizeWarningShown ==
    ( /\ currentBackup # 0
      /\ SizeWarningOf(currentBackup) # ""
      /\ bmReaders = {}
      /\ restoreButton
      /\ bmDetails.file = currentBackup )
    => \/ bmStatus.shown /\ bmStatus.text.msg = SizeWarningOf(currentBackup)
       \/ \E k \in DOMAIN bmDetails.warnings :
              bmDetails.warnings[k] = SizeWarningOf(currentBackup)

\* the first 1024 bytes of the file are all zero (every backup that is read
\* is longer than that)
FirstKilobyteZero(f) == \A o \in DOMAIN BackupFiles[f].bytes : o >= 1024

\* C13: when the read of a backup completes, the backup is accepted (details
\* shown, restore button displayed); its details carry exactly the one
\* "may indicate a corrupted backup" warning when its first 1024 bytes are
\* all zero, and no warning when one of them is not.
C13_ZeroScanWarns ==
    [][ \A r \in bmReaders :
           BmReaderLoad(r) =>
              /\ restoreButton'
              /\ bmInfo'
              /\ bmDetails'.file = r.file
              /\ bmDetails'.warnings =
                    IF FirstKilobyteZero(r.file)
                    THEN << "First 1KB of backup appears to be empty. This may indicate a corrupted backup." >>
                    ELSE << >> ]_vars

C13_Witness ==
    /\ bmReaders = {}
    /\ restoreButton
    /\ bmDetails.file = 5
    /\ bmDetails.warnings = <<EmptyWarning>>

\* C14: a validator called on a buffer returns a verdict; it never ends in an
\* exception.
C14_NeverThrows ==
    probe.done => ~probe.out.threw

\* the positions of '.' in a file name
Dots(n) == {i \in 1..Len(n) : n[i] = "."}

\* the name has a '.', and the text after its last '.' is ext in any case
NameHasExtension(n, ext) ==
    /\ Dots(n) # {}
    /\ LET last == CHOOSE i \in Dots(n) : \A j \in Dots(n) : j <= i
       IN ToLowerCase(SubSeq(n, last + 1, Len(n))) = ext

\* C15: detectFileType accepts every .wad buffer of at least 64 bytes as WAD
\* and every .dol buffer of at least 0x100 bytes as DOL, whatever the bytes.
C15_ContentNeverRejects ==
    (probe.done /\ probe.fn = "detectFileType") =>
        /\ (NameHasExtension(probe.name, <<"w", "a", "d">>)
               /\ probe.buf.byteLength >= 64
               => probe.out.fileType = "WAD")
        /\ (NameHasExtension(probe.name, <<"d", "o", "l">>)
               /\ probe.buf.byteLength >= 256
               => probe.out.fileType = "DOL")

C15_Witness ==
    /\ probe.done
    /\ probe.fn = "detectFileType"
    /\ NameHasExtension(probe.name, <<"w", "a", "d">>)
    /\ probe.buf.byteLength = 64
    /\ probe.buf.bytes = (0 :> 1)
    /\ probe.out.fileType = "WAD"

\* the first four bytes of the file, big-endian, are one of the signatures
SignatureMatches(f) ==
    LET b == WadFiles[f].bytes
        at(o) == IF o \in DOMAIN b THEN b[o] ELSE 0
    IN /\ at(2) = 0
       /\ at(3) = 0
       /\ \/ at(0) = 73 /\ at(1) = 115
          \/ at(0) = 105 /\ at(1) = 98

\* C16: once a .wad whose first four bytes match no signature has been read
\* and accepted, a warning is displayed with the acceptance: in the status
\* or among the details.
C16_SignatureWarningShown ==
    ( /\ currentFile # 0
      /\ wadReaders = {}
      /\ currentFileType = "WAD"
      /\ installButton
      /\ wadDetails.file = currentFile
      /\ ~SignatureMatches(currentFile) )
    => \/ wadStatus.shown /\ wadStatus.cls \notin {"success", "error", "info"}
       \/ wadDetails.warnings # << >>

\* C17: detectFileType yields a type only for a name that has a '.' and
\* whose text after the last '.' is wad or dol in any case.
C17_ExtensionOnly ==
    (probe.done /\ probe.fn = "detectFileType" /\ probe.out.fileType # NoType) =>
        \/ NameHasExtension(probe.name, <<"w", "a", "d">>)
        \/ NameHasExtension(probe.name, <<"d", "o", "l">>)

\* C18: the type detectFileType yields for a name is the same for every
\* buffer of the same length, whatever its bytes, and the call leaves its
\* arguments as they were.
C18_ContentIndependent ==
    [][ ProbeDetectFileType =>
          /\ probe'.buf = probe.buf
          /\ probe'.name = probe.name
          /\ \A b \in ProbeBuffers :
                b.byteLength = probe.buf.byteLength =>
                    detectFileType(probe.name, b) = probe'.out.fileType ]_vars

C18_Witness ==
    /\ probe.done
    /\ probe.fn = "detectFileType"
    /\ probe.name = <<"b", ".", "d", "o", "l">>
    /\ probe.buf.byteLength = 256
    /\ probe.buf.bytes = << >>
    /\ probe.out.fileType = "DOL"

\* C19: a file that bootROM writes lies under /roms and a file that
\* loadROMIntoRetroArch writes lies under /tmp, whatever the file name.
C19_PathsStayInRoot ==
    [][ \A p \in fsFiles' \ fsFiles :
           /\ Len(p) >= 2
           /\ p[1] = (IF romResult'.fn = "bootROM" THEN "roms" ELSE "tmp") ]_vars

\* C20: a read starts its bar at 0; a progress event changes the bar only
\* when it is lengthComputable, to a value within 0..100 that is not below
\* the value the same read emitted before; and the load event sets it to 100.
C20_ReadProgress ==
    [][ /\ \A f \in WadIds : WadChange(f) => wadProgress'.fill = 0
        /\ \A f \in BackupIds : BmChange(f) => bmProgress'.fill = 0
        /\ \A r \in wadReaders :
              /\ \A c \in BOOLEAN, l \in LoadedSteps(WadFiles[r.file].size) :
                    WadReaderProgress(r, c, l) =>
                       IF c THEN /\ wadProgress'.fill \in 0..100
                                 /\ wadProgress'.fill >= r.percent
                            ELSE wadProgress' = wadProgress
              /\ (WadReaderLoad(r) =>
                    wadProgress'.fill = 100 /\ wadProgress'.fill >= r.percent)
        /\ \A r \in bmReaders :
              /\ \A c \in BOOLEAN, l \in LoadedSteps(BackupFiles[r.file].size) :
                    BmReaderProgress(r, c, l) =>
                       IF c THEN /\ bmProgress'.fill \in 0..100
                                 /\ bmProgress'.fill >= r.percent
                            ELSE bmProgress' = bmProgress
              /\ (BmReaderLoad(r) =>
                    bmProgress'.fill = 100 /\ bmProgress'.fill >= r.percent) ]_vars

C20_Witness ==
    /\ \E r \in wadReaders : r.percent = 50 /\ wadProgress.fill = 50
    /\ \E r \in bmReaders : r.loaded > 0 /\ r.percent = 0

\* C21: when a read fails the page shows its one error status and nothing
\* else of a completed read happens: the file type, the details, the info
\* box and the install (restore) button stay as they were, and the reader
\* is gone, so no load event of it follows.
C21_ReadFailureTerminal ==
    [][ /\ \A r \in wadReaders :
              WadReaderError(r) =>
                 /\ wadStatus' = showStatus("error",
                        Text("Error reading file. Please try again.", "", NoName))
                 /\ ~wadProgress'.shown
                 /\ UNCHANGED <<currentFile, currentFileType, wadInfo, wadDetails,
                                installButton>>
                 /\ \A q \in wadReaders' : q.id # r.id
        /\ \A r \in bmReaders :
              BmReaderError(r) =>
                 /\ bmStatus' = showStatus("error",
                        Text("Error reading backup file. Please try again.", "", NoName))
                 /\ ~bmProgress'.shown
                 /\ UNCHANGED <<currentBackup, bmInfo, bmDetails, restoreButton>>
                 /\ \A q \in bmReaders' : q.id # r.id ]_vars

C21_Witness ==
    /\ currentFile # 0
    /\ wadReaders = {}
    /\ wadStatus.text.msg = "Error reading file. Please try again."
    /\ ~installButton
    /\ currentBackup # 0
    /\ bmReaders = {}
    /\ bmStatus.text.msg = "Error reading backup file. Please try again."
    /\ ~restoreButton

\* the status that says the ROM is loaded
LoadedText(name) == Text("loaded! Use keyboard/gamepad to play.", "", name)

\* C22: the success status '<file> loaded!' is shown only if the ROM was
\* written to the file system (RetroArch) or booted (Dolphin); a load that
\* did nothing, threw, or whose boot returned false does not show it.
C22_LoadedMeansLoaded ==
    (romStatus.cls = "success" /\ romStatus.text = LoadedText(currentROM))
       => romResult.result \in {"true", "written"}

\* a step of handleROMLoad that routes the ROM to a backend
RouteStep ==
    /\ emulatorReady
    /\ \E r \in romLoads, booted \in BOOLEAN :
          RomReaderLoad(r, booted) \/ RomPoll(r, booted)

\* C23: initEmulator sets emulatorType to 'dolphin' and starts initDolphin
\* exactly when DolphinLoader is defined, else sets 'retroarch' and starts
\* the RetroArch poll; emulatorType is always one of the two; a ROM goes to
\* the backend emulatorType names when it is loaded.
C23_BackendSelection ==
    [][ /\ emulatorType' \in {"dolphin", "retroarch"}
        /\ initEmulator =>
              IF page.loaderDefined
              THEN /\ emulatorType' = "dolphin"
                   /\ page'.hasLoader
                   /\ dolphinLoader'.isLoading
                   /\ promises'[page'.initPromise] = "pending"
                   /\ statusCheckInterval' = "null"
              ELSE /\ emulatorType' = "retroarch"
                   /\ statusCheckInterval' = "set"
                   /\ ~page'.hasLoader
                   /\ promises' = <<>>
        /\ RouteStep =>
              /\ emulatorType = "dolphin"
                    => romResult'.fn \in {"bootROM", "loadROMIntoDolphin"}
              /\ emulatorType = "retroarch"
                    => romResult'.fn = "loadROMIntoRetroArch" ]_vars

C23_Witness ==
    /\ page.loaderDefined
    /\ emulatorType = "retroarch"
    /\ romResult.fn = "loadROMIntoRetroArch"
    /\ romResult.result = "written"

\* the page has fallen back: RetroArch mode, its poll started
FellBack == emulatorType = "retroarch" /\ page.pollStarted

\* C24: on a page with DolphinLoader defined, unless the Dolphin runtime
\* becomes ready the page ends up in RetroArch mode with the RetroArch poll
\* started; and once fallen back emulatorType stays 'retroarch'.
C24_FallbackReached ==
    /\ [][FellBack => emulatorType' = "retroarch"]_vars
    /\ (page.loaded /\ page.loaderDefined)
          ~> (dolphinLoader.isReady \/ FellBack)

\* C29: in RetroArch mode emulatorReady is true only once the RetroArch
\* runtime is there; the object init left in window.Module does not make
\* the poll report ready.
C29_ReadyMeansRetroArch ==
    (emulatorType = "retroarch" /\ emulatorReady) => page.retroArch = "ready"

\* C30: the disclaimer is shown on a first visit only: a page load displays
\* the modal exactly when there is no wiiDisclaimerAccepted=true cookie;
\* accepting sets the cookie and hides the modal (at once, or by the timer
\* of the fade); a later page load with the cookie still there does not
\* show it.
C30_DisclaimerOnce ==
    [][ /\ initDisclaimer =>
              (disclaimer'.display = "flex") <=> (disclaimerCookie # TrueValue)
        /\ acceptDisclaimer =>
              /\ disclaimerCookie' = TrueValue
              /\ \/ disclaimer'.display = "none"
                 \/ disclaimer'.opacity = "0" /\ disclaimer'.hideTimers > 0
        /\ HideDisclaimerTimeout => disclaimer'.display = "none" ]_vars

C30_Witness ==
    /\ disclaimer.script = "part_002"
    /\ disclaimer.nLoads >= 2
    /\ disclaimer.nClicks = 1
    /\ disclaimerCookie = TrueValue
    /\ disclaimer.display = "none"
    /\ disclaimer.opacity = ""

\* a call of bootROM
BootROMStep == \E n \in RomNames, booted \in BOOLEAN : bootROM(n, booted)

\* C27: bootROM on a loader that is not ready fails with 'Dolphin is not
\* ready. Call init() first.' and changes nothing: no file is written, no
\* boot is attempted, the loader and window.Module are as before.
C27_BootBeforeReady ==
    [][ (~dolphinLoader.isReady /\ BootROMStep) =>
           /\ romResult'.result = "not ready"
           /\ UNCHANGED <<fsFiles, backendCalls, dolphinLoader, windowModule,
                          promises, env>> ]_vars

C27_Witness ==
    /\ romResult.fn = "bootROM"
    /\ romResult.result = "not ready"
    /\ dolphinLoader.isLoading
    /\ env.runtime = "starting"
    /\ fsFiles = {}
    /\ backendCalls = <<>>

\* a call of a control method
MethodStep ==
    \/ pause
    \/ resume
    \/ stop
    \/ \E slot \in Slots : saveState(slot) \/ loadState(slot)

\* C28: while the loader is not ready, pause, resume, stop, saveState and
\* loadState call nothing on the instance or the module, start no sync of
\* the file system and leave every field of the loader as it was.
C28_ControlsNoOp ==
    [][ (~dolphinLoader.isReady /\ MethodStep) =>
           UNCHANGED <<backendCalls, dolphinLoader, windowModule, fsFiles,
                       promises, env>> ]_vars

C28_Witness ==
    /\ romResult.fn = "saveState"
    /\ romResult.result = "not ready"
    /\ dolphinLoader.isLoading
    /\ dolphinLoader.module = "Module"
    /\ backendCalls = <<>>

\* the promises that are in the given state
PromisesIn(ps, state) == { i \in DOMAIN ps : ps[i] = state }

\* a load error: the script fails, the runtime aborts, or onRuntimeReady
\* throws because the module has neither DolphinWasm nor ccall
LoadError ==
    \/ ScriptError
    \/ RuntimeAbort
    \/ RuntimeInitialized /\ ~DefinesWasm(env.build) /\ ~ExportsFS(env.build)

\* C26: a promise of init is resolved only when isReady is true; isReady
\* becomes true only with a DolphinWasm instance or a module that has ccall;
\* a load error rejects the pending promises and resolves none.
C26_ResolvedOnlyWhenReady ==
    [][ /\ PromisesIn(promises', "resolved") # {} => dolphinLoader'.isReady
        /\ dolphinLoader'.isReady =>
              \/ dolphinLoader'.dolphinInstance
              \/ dolphinLoader'.module # "null" /\ windowModule' = "runtime"
        /\ LoadError =>
              /\ PromisesIn(promises, "pending")
                    \subseteq PromisesIn(promises', "rejected")
              /\ PromisesIn(promises', "resolved")
                    = PromisesIn(promises, "resolved") ]_vars

C26_Witness ==
    /\ dolphinLoader.isReady
    /\ ~dolphinLoader.dolphinInstance
    /\ Cardinality(PromisesIn(promises, "resolved")) >= 2
    /\ env.runtime = "aborted"

\* C25: every promise DolphinLoader.init has returned is settled in the end.
C25_InitSettles ==
    \A i \in 1..MaxInit :
        (i \in DOMAIN promises /\ promises[i] = "pending")
           ~> (i \in DOMAIN promises /\ promises[i] # "pending")

\* C32: an init made while the loader is loading starts no second script
\* load and leaves window.Module and the module of the loader alone; when
\* the load ends all the pending callers get the same outcome, and a
\* settled promise never changes (one notification each, never both).
C32_SharedLoad ==
    [][ /\ (dolphinLoader.isLoading /\ init) =>
              /\ UNCHANGED <<windowModule, env>>
              /\ dolphinLoader'.module = dolphinLoader.module
              /\ promises' = Append(promises, "pending")
        /\ \A i \in DOMAIN promises :
              promises[i] # "pending" => promises'[i] = promises[i]
        /\ \A i, j \in PromisesIn(promises, "pending") :
              promises'[i] = promises'[j] ]_vars

C32_Witness ==
    /\ Cardinality(PromisesIn(promises, "rejected")) >= 2
    /\ env.scriptTag = "failed"
    /\ ~dolphinLoader.isLoading
    /\ promises[1] = "rejected"

\* C33: init on a ready loader resolves at once and leaves the loader
\* (module, dolphinInstance, isLoading, both lists), window.Module and the
\* script element as they are.
C33_InitIdempotent ==
    [][ (dolphinLoader.isReady /\ init) =>
           /\ promises' = Append(promises, "resolved")
           /\ UNCHANGED <<dolphinLoader, windowModule, env>> ]_vars

C33_Witness ==
    /\ dolphinLoader.isReady
    /\ Len(promises) = MaxInit
    /\ PromisesIn(promises, "resolved") = DOMAIN promises
    /\ dolphinLoader.dolphinInstance

\* C34: after every loader event isReady and isLoading are not both true,
\* isReady once true stays true, the two callback lists have the same
\* length, and both are empty whenever isLoading is false.
C34_LoaderInvariant ==
    [][ /\ ~(dolphinLoader'.isReady /\ dolphinLoader'.isLoading)
        /\ dolphinLoader.isReady => dolphinLoader'.isReady
        /\ Len(dolphinLoader'.loadCallbacks)
              = Len(dolphinLoader'.errorCallbacks)
        /\ ~dolphinLoader'.isLoading =>
              /\ dolphinLoader'.loadCallbacks = <<>>
              /\ dolphinLoader'.errorCallbacks = <<>> ]_vars

C34_Witness ==
    /\ ~dolphinLoader.isLoading
    /\ ~dolphinLoader.isReady
    /\ dolphinLoader.loadCallbacks = <<>>
    /\ Cardinality(PromisesIn(promises, "rejected")) >= 2
    /\ env.runtime = "aborted"

\* the selections whose read or wait is still going
RomIds(loads) == { r.id : r \in loads }

\* C37: a ROM selected while the emulator is not ready is loaded once at
\* most: the first tick of its poll that sees emulatorReady loads it and
\* clears the poll; if the 20 s timer comes first the poll is cleared and
\* nothing is loaded; a cleared poll never comes back.
C37_LoadedOnce ==
    [][ /\ \A r \in romLoads :
              /\ (emulatorReady /\ \E booted \in BOOLEAN : RomPoll(r, booted)) =>
                    /\ romResult'.filename = r.name
                    /\ romResult'.fn # "none"
                    /\ r.id \notin RomIds(romLoads')
                    /\ r.id \notin page.pollLoads \cup page.expired
              /\ (~emulatorReady /\ \E booted \in BOOLEAN : RomPoll(r, booted)) =>
                    UNCHANGED <<romResult, fsFiles, backendCalls, romStatus>>
              /\ RomPollTimeout(r) =>
                    /\ r.id \notin RomIds(romLoads')
                    /\ r.id \notin page.pollLoads
                    /\ UNCHANGED <<romResult, fsFiles, backendCalls, romStatus>>
        /\ RomIds(romLoads') \cap (page'.pollLoads \cup page'.expired) = {}
        /\ page'.pollLoads \cap page'.expired = {} ]_vars

C37_Witness ==
    /\ page.pollLoads = {1}
    /\ page.expired = {2}
    /\ romLoads = {}
    /\ emulatorReady

\* C38: the label of the pause button is 'Resume' exactly when the backend
\* is paused, whatever the clicks, also in Dolphin mode before the loader
\* is ready.
C38_LabelMatchesState ==
    (page.pauseLabel = "Resume") <=> page.paused

\* the step takes operation i from below 100 to 100
Completes(i) == ops[i].progress < 100 /\ ops'[i].progress >= 100

\* the record the completion of an operation writes
RecordOf(op) ==
    IF op.kind = "install"
    THEN [filename |-> NameOfWad(op.file), type |-> op.fileType, size |-> 0]
    ELSE [filename |-> NameOfBackup(op.file), type |-> NoType,
          size |-> BackupFiles[op.file].size]

\* C39: the completion record is written only in the tick that takes an
\* operation to 100, once per operation, and it names the file the operation
\* was started with: a step in which no operation completes leaves both
\* cookies alone, a completing step stores the record of that operation in
\* the cookie of its kind and leaves the other cookie alone, and a completed
\* operation never ticks again nor changes its file.
C39_RecordOnSuccess ==
    [][ /\ Len(ops') >= Len(ops)
        /\ (\A i \in DOMAIN ops : ~Completes(i)) => cookie' = cookie
        /\ \A i \in DOMAIN ops :
              /\ ops'[i].file = ops[i].file
              /\ ops'[i].kind = ops[i].kind
              /\ ops[i].progress >= 100 => ops'[i].progress = ops[i].progress
              /\ Completes(i) =>
                    IF ops[i].kind = "install"
                    THEN /\ cookie'.lastWadDolInstall = RecordOf(ops[i])
                         /\ cookie'.lastBootMiiRestore = cookie.lastBootMiiRestore
                    ELSE /\ cookie'.lastBootMiiRestore = RecordOf(ops[i])
                         /\ cookie'.lastWadDolInstall = cookie.lastWadDolInstall ]_vars

\* an install completed and recorded after another file had been chosen
C39_Witness ==
    \E i \in DOMAIN ops :
        /\ ops[i].kind = "install"
        /\ ops[i].progress = 100
        /\ cookie.lastWadDolInstall = RecordOf(ops[i])
        /\ currentFile # ops[i].file
        /\ NameOfWad(currentFile) # NameOfWad(ops[i].file)

\* C35: one confirmation callback at a time.  A warning replaces the
\* callback of the one before it; a confirm click starts exactly one
\* operation, the one the warning shown last announces, and hides the modal,
\* so the click cannot be repeated; the operation of a superseded warning is
\* not started by it.
C35_LatestWarningOnly ==
    [][ /\ Len(ops') <= Len(ops) + 1
        /\ (Len(ops') > Len(ops) =>
              /\ modal.shown
              /\ ~modal'.shown
              /\ ops'[Len(ops')].kind = modal.message.op
              /\ ops'[Len(ops')].kind = modal.onConfirm)
        /\ (modal' # modal /\ modal'.shown =>
              /\ modal'.onConfirm = modal'.message.op
              /\ modal'.onConfirm = IF InstallClick THEN "install" ELSE "restore"
              /\ modal'.superseded \in {"none", modal.onConfirm}
              /\ modal'.superseded # modal'.onConfirm) ]_vars

\* the install warning was superseded by the restore warning while open, and
\* the confirm click started the restore and no install
C35_Witness ==
    /\ modal.superseded = "install"
    /\ modal.onConfirm = "restore"
    /\ ~modal.shown
    /\ Len(ops) = 1
    /\ ops[1].kind = "restore"
    /\ installButton

\* C36: the progress bar of a page is displayed as long as an install or
\* restore operation of that page is running; neither the hide timer of an
\* earlier operation nor a file selection made meanwhile hides it.
C36_BarShownWhileRunning ==
    \A i \in DOMAIN ops :
        Running(i) => IF ops[i].kind = "install" THEN wadProgress.shown
                      ELSE bmProgress.shown

\* C40: the handler with header checks and the simplified handler of
\* part_003 are equivalent: detectFileType yields the same type in both for
\* every name and buffer, and the completion of a read, the one handler in
\* which the two differ, takes the page from the same state to the same state
\* in both.
C40_HandlersEquivalent ==
    [][ /\ \A r \in wadReaders : WadReaderLoad(r) <=> WadReaderLoad_part003(r)
        /\ \A f \in WadIds : WadTypeOf[f] = WadTypeOf_part003[f]
        /\ \A n \in ProbeNames :
              \A b \in {x \in ProbeBuffers : x.byteLength <= 257} :
                 detectFileType(n, b) = detectFileType_part003(n, b) ]_vars

\* a WAD of sufficient size whose header is no known signature was read and
\* accepted, and a DOL too short was read and rejected
C40_Witness ==
    /\ wadDetails.file = 8
    /\ WadTypeOf[8] = "WAD"
    /\ GetUint32(BufferOf(WadFiles[8]), 0, FALSE) \notin {WAD_SIG_IS, WAD_SIG_IB}
    /\ installButton
    /\ currentFile = 5
    /\ currentFileType = NoType
    /\ wadReaders = {}

\* C31: every install operation was started with a file that passed
\* detectFileType and with the type detected for that very file.
C31_InstalledIsValidated ==
    \A i \in DOMAIN ops :
        ops[i].kind = "install" =>
            /\ WadTypeOf[ops[i].file] # NoType
            /\ ops[i].fileType = WadTypeOf[ops[i].file]

=============================================================================
